---- MODULE Spec2Model ----
(***************************************************************************)
(* PRISMA STUDIO core engine: the JSON extraction/repair routine           *)
(* (cleanJsonString), the keyframe table (getRequiredKeyframeCount) and    *)
(* the style preset lookup of generateMoviePackage.                        *)
(*                                                                         *)
(* A JavaScript string is a sequence of one-character strings.  The        *)
(* backquote character (U+0060) is written BT, because a TLA+ string       *)
(* literal cannot hold it.  Indices are the 0-based indices of the source. *)
(***************************************************************************)
EXTENDS Integers, Sequences, FiniteSets, TLC

VARIABLES
    pc,            \* position of the request being modelled
    how,           \* how the completion relates to the document the model meant
    doc,           \* the well-formed JSON text the model meant to emit
    text,          \* response.text, the argument of cleanJsonString
    rawJson,       \* const rawJson = cleanJsonString(response.text)
    data,          \* outcome of JSON.parse(rawJson)
    duration,      \* input.videoDuration
    density,       \* input.sceneDensity
    visualStyle,   \* input.visualStyle
    keyframeTotal, \* const keyframeTotal = getRequiredKeyframeCount(...)
    stylePreset,   \* const stylePreset = VISUAL_STYLE_PRESETS[...] || ...
    script,        \* input.script
    aspectRatio,   \* input.aspectRatio
    retryCount,    \* the parameter retryCount of the current invocation
    err,           \* the error caught by, or rejecting, generateMoviePackage
    pkg,           \* the ProductionPackage the request resolves to
    calls,         \* number of generateContent calls the request has made
    parseRetries,  \* number of re-invocations made after a parse failure
    delay,         \* milliseconds of the timer a quota retry is waiting on
    frames,        \* the locals of the invocations of the pure functions
    auth,          \* the user Firebase Auth holds signed in
    app,           \* the state of the root App and the unsubscribeProfile of its effect
    listeners,     \* the onSnapshot subscriptions that are active
    tasks,         \* the invocations of the onAuthChange callback and of handleAuth
    users,         \* the documents of the collection "users"
    written,       \* the status updateUserStatus wrote last, per uid
    apiKey,        \* process.env.API_KEY
    keyApp,        \* the state of MainApp: isKeyReady, isKeyManagerOpen, loading
    lastEvent      \* the window event dispatched last

vars == <<pc, how, doc, text, rawJson, data,
          duration, density, visualStyle, keyframeTotal, stylePreset,
          script, aspectRatio, retryCount, err, pkg, calls, parseRetries, delay,
          frames, auth, app, listeners, tasks, users, written, apiKey, keyApp,
          lastEvent>>

recoverVars == <<how, doc, text, rawJson, data>>
lookupVars == <<duration, density, visualStyle, keyframeTotal, stylePreset>>
packageVars == <<script, aspectRatio, retryCount, err, pkg, calls, parseRetries, delay>>
pureVars == <<frames>>
appVars == <<auth, app, listeners, tasks, users, written>>
keyVars == <<apiKey, keyApp, lastEvent>>

-----------------------------------------------------------------------------
(* JavaScript string primitives                                            *)

BT == "BT"

\* White space as String.prototype.trim and the regular expression class \s
\* see it (restricted to the characters the model uses).
WhiteSpace == {" ", "\t", "\n", "\r"}

\* s.substring(from, to) with 0 <= from <= to <= s.length
Substring(s, from, to) == SubSeq(s, from + 1, to)

\* s[i]
CharAt(s, i) == s[i + 1]

\* s.indexOf(c): the first 0-based index of c, or -1
IndexOf(s, c) ==
    IF \E i \in 1..Len(s) : s[i] = c
    THEN (CHOOSE i \in 1..Len(s) : s[i] = c /\ \A j \in 1..(i - 1) : s[j] # c) - 1
    ELSE -1

\* s.trim()
Trim(s) ==
    LET keep == {i \in 1..Len(s) : s[i] \notin WhiteSpace}
    IN  IF keep = {} THEN <<>>
        ELSE SubSeq(s, CHOOSE i \in keep : \A j \in 1..(i - 1) : s[j] \in WhiteSpace,
                       CHOOSE i \in keep : \A j \in (i + 1)..Len(s) : s[j] \in WhiteSpace)

\* The number of white space characters of s from 0-based index i on (\s*)
RECURSIVE SpaceRun(_, _)
SpaceRun(s, i) ==
    IF i < Len(s) /\ CharAt(s, i) \in WhiteSpace THEN 1 + SpaceRun(s, i + 1) ELSE 0

UpperCase == <<"A", "B", "C", "D", "E", "F", "G", "H", "I", "J", "K", "L", "M",
               "N", "O", "P", "Q", "R", "S", "T", "U", "V", "W", "X", "Y", "Z">>
LowerCase == <<"a", "b", "c", "d", "e", "f", "g", "h", "i", "j", "k", "l", "m",
               "n", "o", "p", "q", "r", "s", "t", "u", "v", "w", "x", "y", "z">>

LowerChar(c) ==
    IF \E i \in 1..26 : UpperCase[i] = c
    THEN LowerCase[CHOOSE i \in 1..26 : UpperCase[i] = c]
    ELSE c

\* s.toLowerCase()
ToLowerCase(s) == [i \in 1..Len(s) |-> LowerChar(s[i])]

-----------------------------------------------------------------------------
(* cleanJsonString                                                         *)

EmptyObjectText == <<"{", "}">>

\* .replace(/^```json\s*/i, '')
StripFenceOpen(s) ==
    IF Len(s) >= 7 /\ s[1] = BT /\ s[2] = BT /\ s[3] = BT
       /\ ToLowerCase(SubSeq(s, 4, 7)) = <<"j", "s", "o", "n">>
    THEN Substring(s, 7 + SpaceRun(s, 7), Len(s))
    ELSE s

\* .replace(/```$/i, '')
StripFenceClose(s) ==
    IF Len(s) >= 3 /\ s[Len(s)] = BT /\ s[Len(s) - 1] = BT /\ s[Len(s) - 2] = BT
    THEN SubSeq(s, 1, Len(s) - 3)
    ELSE s

\* The root search that, finding no root, keeps the whole text (index 0)
RootStart_KeepAll(cleaned) ==
    LET startObj == IndexOf(cleaned, "{")
        startArr == IndexOf(cleaned, "[")
    IN  IF startObj # -1 /\ (startArr = -1 \/ startObj < startArr) THEN startObj
        ELSE IF startArr # -1 THEN startArr
        ELSE 0

\* A root search that looks for an object only
RootStart_BraceOnly(cleaned) == IndexOf(cleaned, "{")

\* The start of the first JSON object or array, or -1
RootStart(cleaned) ==
    LET startObj == IndexOf(cleaned, "{")
        startArr == IndexOf(cleaned, "[")
    IN  IF startObj # -1 /\ (startArr = -1 \/ startObj < startArr) THEN startObj
        ELSE IF startArr # -1 THEN startArr
        ELSE -1

ScanInit(cleaned) ==
    [cleaned |-> cleaned, braceCount |-> 0, bracketCount |-> 0, inString |-> FALSE,
     escaped |-> FALSE, lastSafePoint |-> -1, finished |-> FALSE]

\* The loop has left by its break at a negative counter
BrokeOff(st) == st.braceCount < 0 \/ st.bracketCount < 0

\* One iteration of the scan loop without the exit at the end of the root
\* structure
ScanStep_NoEarlyExit(st, i) ==
    IF st.finished \/ BrokeOff(st) \/ i >= Len(st.cleaned) THEN st
    ELSE
    LET char == CharAt(st.cleaned, i)
        inString == IF char = "\"" /\ ~st.escaped THEN ~st.inString ELSE st.inString
        braceCount ==
            IF inString THEN st.braceCount
            ELSE IF char = "{" THEN st.braceCount + 1
            ELSE IF char = "}" THEN st.braceCount - 1
            ELSE st.braceCount
        bracketCount ==
            IF inString \/ char = "{" \/ char = "}" THEN st.bracketCount
            ELSE IF char = "[" THEN st.bracketCount + 1
            ELSE IF char = "]" THEN st.bracketCount - 1
            ELSE st.bracketCount
        lastSafePoint ==
            IF ~inString /\ braceCount >= 0 /\ bracketCount >= 0
               /\ char \in {"}", "]", ","}
            THEN i ELSE st.lastSafePoint
    IN  [cleaned |-> st.cleaned, braceCount |-> braceCount,
         bracketCount |-> bracketCount, inString |-> inString,
         escaped |-> (char = "\\" /\ ~st.escaped),
         lastSafePoint |-> lastSafePoint, finished |-> FALSE]

\* An iteration in which every double quote toggles inString
ScanStep_EveryQuoteToggles(st, i) ==
    IF st.finished \/ BrokeOff(st) \/ i >= Len(st.cleaned) THEN st
    ELSE
    LET char == CharAt(st.cleaned, i)
        inString == IF char = "\"" THEN ~st.inString ELSE st.inString
        braceCount ==
            IF inString THEN st.braceCount
            ELSE IF char = "{" THEN st.braceCount + 1
            ELSE IF char = "}" THEN st.braceCount - 1
            ELSE st.braceCount
        bracketCount ==
            IF inString \/ char = "{" \/ char = "}" THEN st.bracketCount
            ELSE IF char = "[" THEN st.bracketCount + 1
            ELSE IF char = "]" THEN st.bracketCount - 1
            ELSE st.bracketCount
        lastSafePoint ==
            IF ~inString /\ braceCount >= 0 /\ bracketCount >= 0
               /\ char \in {"}", "]", ","}
            THEN i ELSE st.lastSafePoint
        next == [cleaned |-> st.cleaned, braceCount |-> braceCount,
                 bracketCount |-> bracketCount, inString |-> inString,
                 escaped |-> (char = "\\" /\ ~st.escaped),
                 lastSafePoint |-> lastSafePoint, finished |-> FALSE]
    IN  IF ~inString /\ braceCount = 0 /\ bracketCount = 0 /\ i > 0
        THEN [next EXCEPT !.cleaned = Substring(st.cleaned, 0, i + 1),
                          !.escaped = st.escaped, !.finished = TRUE]
        ELSE next

\* The iteration of the scan loop at index i, in the state st the loop has
\* reached; no iteration once the loop has left.
ScanStep(st, i) ==
    IF st.finished \/ BrokeOff(st) \/ i >= Len(st.cleaned) THEN st
    ELSE
    LET char == CharAt(st.cleaned, i)
        inString == IF char = "\"" /\ ~st.escaped THEN ~st.inString ELSE st.inString
        braceCount ==
            IF inString THEN st.braceCount
            ELSE IF char = "{" THEN st.braceCount + 1
            ELSE IF char = "}" THEN st.braceCount - 1
            ELSE st.braceCount
        bracketCount ==
            IF inString \/ char = "{" \/ char = "}" THEN st.bracketCount
            ELSE IF char = "[" THEN st.bracketCount + 1
            ELSE IF char = "]" THEN st.bracketCount - 1
            ELSE st.bracketCount
        lastSafePoint ==
            IF ~inString /\ braceCount >= 0 /\ bracketCount >= 0
               /\ char \in {"}", "]", ","}
            THEN i ELSE st.lastSafePoint
        next == [cleaned |-> st.cleaned, braceCount |-> braceCount,
                 bracketCount |-> bracketCount, inString |-> inString,
                 escaped |-> (char = "\\" /\ ~st.escaped),
                 lastSafePoint |-> lastSafePoint, finished |-> FALSE]
    IN  IF ~inString /\ braceCount = 0 /\ bracketCount = 0 /\ i > 0
        THEN [next EXCEPT !.cleaned = Substring(st.cleaned, 0, i + 1),
                          !.escaped = st.escaped, !.finished = TRUE]
        ELSE next

\* The scan loop without the exit at the end of the root structure
RECURSIVE ScanLoop_NoEarlyExit(_, _)
ScanLoop_NoEarlyExit(st, i) ==
    IF BrokeOff(st) \/ i >= Len(st.cleaned) THEN st
    ELSE ScanLoop_NoEarlyExit(
             ScanStep_NoEarlyExit(ScanStep_NoEarlyExit(ScanStep_NoEarlyExit(
                 ScanStep_NoEarlyExit(st, i), i + 1), i + 2), i + 3),
             i + 4)

\* The scan loop, from index i on, in the state st the loop has reached
\* (four iterations to a recursion step).
RECURSIVE ScanLoop(_, _)
ScanLoop(st, i) ==
    IF st.finished \/ BrokeOff(st) \/ i >= Len(st.cleaned) THEN st
    ELSE ScanLoop(ScanStep(ScanStep(ScanStep(ScanStep(st, i), i + 1), i + 2), i + 3),
                  i + 4)

\* .replace(/,$/, '')
StripTrailingComma(s) ==
    IF Len(s) > 0 /\ s[Len(s)] = "," THEN SubSeq(s, 1, Len(s) - 1) ELSE s

\* The balance re-scan: every character counts, inside a string or not.
Count(s, c) == Cardinality({i \in 1..Len(s) : s[i] = c})

Repeat(c, n) == [i \in 1..n |-> c]

\* Handle truncation if not finished normally
RepairTruncation(st) ==
    IF ~st.finished /\ (st.braceCount > 0 \/ st.bracketCount > 0 \/ st.inString)
    THEN IF st.lastSafePoint # -1
         THEN LET cut == StripTrailingComma(
                             Trim(Substring(st.cleaned, 0, st.lastSafePoint + 1)))
                  sBrace == Count(cut, "{") - Count(cut, "}")
                  sBracket == Count(cut, "[") - Count(cut, "]")
              IN  cut \o Repeat("]", IF sBracket > 0 THEN sBracket ELSE 0)
                      \o Repeat("}", IF sBrace > 0 THEN sBrace ELSE 0)
         ELSE IF Len(st.cleaned) > 0 /\ st.cleaned[Len(st.cleaned)] = "}"
              THEN st.cleaned
              ELSE Append(st.cleaned, "}")
    ELSE st.cleaned

\* .replace(/\n/g, ' ').replace(/\r/g, ' ')
ReplaceNewlines(s) == [i \in 1..Len(s) |-> IF s[i] \in {"\n", "\r"} THEN " " ELSE s[i]]

\* One step of a global replace: out is the result so far, i the index the
\* next match is sought at.
\* .replace(/,\s*([\]}])/g, '$1')
DropStep(s, r) ==
    IF r.i >= Len(s) THEN r
    ELSE LET j == r.i + 1 + SpaceRun(s, r.i + 1)
         IN  IF CharAt(s, r.i) = "," /\ j < Len(s) /\ CharAt(s, j) \in {"]", "}"}
             THEN [out |-> Append(r.out, CharAt(s, j)), i |-> j + 1]
             ELSE [out |-> Append(r.out, CharAt(s, r.i)), i |-> r.i + 1]

RECURSIVE DropLoop(_, _)
DropLoop(s, r) ==
    IF r.i >= Len(s) THEN r
    ELSE DropLoop(s, DropStep(s, DropStep(s, DropStep(s, DropStep(s, r)))))

\* .replace(/,\s*([\]}])/g, '$1'), matching from index i on
DropTrailingCommas(s, i) == DropLoop(s, [out |-> <<>>, i |-> i]).out

\* .replace(/"\s*:\s*"/g, '":"')
TightenStep(s, r) ==
    IF r.i >= Len(s) THEN r
    ELSE LET j == r.i + 1 + SpaceRun(s, r.i + 1)
             k == j + 1 + SpaceRun(s, j + 1)
         IN  IF CharAt(s, r.i) = "\"" /\ j < Len(s) /\ CharAt(s, j) = ":"
                /\ k < Len(s) /\ CharAt(s, k) = "\""
             THEN [out |-> r.out \o <<"\"", ":", "\"">>, i |-> k + 1]
             ELSE [out |-> Append(r.out, CharAt(s, r.i)), i |-> r.i + 1]

RECURSIVE TightenLoop(_, _)
TightenLoop(s, r) ==
    IF r.i >= Len(s) THEN r
    ELSE TightenLoop(s, TightenStep(s, TightenStep(s, TightenStep(s, TightenStep(s, r)))))

\* .replace(/"\s*:\s*"/g, '":"'), matching from index i on
TightenColons(s, i) == TightenLoop(s, [out |-> <<>>, i |-> i]).out

PostProcess(cleaned) ==
    TightenColons(DropTrailingCommas(ReplaceNewlines(cleaned), 0), 0)

\* The argument of cleanJsonString is a string or undefined.
Undefined == [defined |-> FALSE, chars |-> <<>>]
Str(s) == [defined |-> TRUE, chars |-> s]

cleanJsonString(t) ==
    IF ~t.defined \/ t.chars = <<>> THEN EmptyObjectText
    ELSE LET stripped == Trim(StripFenceClose(StripFenceOpen(Trim(t.chars))))
             start == RootStart(stripped)
         IN  IF start = -1 THEN EmptyObjectText
             ELSE PostProcess(RepairTruncation(
                      ScanLoop(ScanInit(Substring(stripped, start, Len(stripped))), 0)))

-----------------------------------------------------------------------------
(* JSON.parse: the JSON grammar of ECMA-404, as a recursive descent parser. *)
(* A parsed value is [t |-> kind, v |-> content]: a string holds its        *)
(* decoded characters, a number its digits, an array its values, an object  *)
(* its members [k |-> key, val |-> value] in insertion order (a repeated    *)
(* key keeps its place and takes the last value).                           *)

EOF == "EOF"
At(s, i) == IF i >= 0 /\ i < Len(s) THEN CharAt(s, i) ELSE EOF

NoValue == [t |-> "none", v |-> <<>>]
Fail == [ok |-> FALSE, pos |-> 0, val |-> NoValue]
Ok(pos, val) == [ok |-> TRUE, pos |-> pos, val |-> val]

SkipWs(s, i) == i + SpaceRun(s, i)

Digits == {"0", "1", "2", "3", "4", "5", "6", "7", "8", "9"}
HexDigits == Digits \cup {"a", "b", "c", "d", "e", "f", "A", "B", "C", "D", "E", "F"}

RECURSIVE DigitRun(_, _)
DigitRun(s, i) == IF At(s, i) \in Digits THEN 1 + DigitRun(s, i + 1) ELSE 0

\* The character an escape sequence \c stands for
Unescape(c) ==
    CASE c = "n" -> "\n"
      [] c = "r" -> "\r"
      [] c = "t" -> "\t"
      [] c = "b" -> "\\b"
      [] c = "f" -> "\\f"
      [] OTHER -> c

\* The rest of a string literal from index i on, acc being its characters so far
RECURSIVE StringBody(_, _, _)
StringBody(s, i, acc) ==
    LET c == At(s, i)
    IN  IF c = EOF \/ c \in {"\n", "\r", "\t"} THEN Fail
        ELSE IF c = "\"" THEN Ok(i + 1, [t |-> "str", v |-> acc])
        ELSE IF c = "\\"
        THEN IF At(s, i + 1) \in {"\"", "\\", "/", "b", "f", "n", "r", "t"}
             THEN StringBody(s, i + 2, Append(acc, Unescape(At(s, i + 1))))
             ELSE IF At(s, i + 1) = "u" /\ \A k \in 2..5 : At(s, i + k) \in HexDigits
             THEN StringBody(s, i + 6, Append(acc,
                      "\\u" \o At(s, i + 2) \o At(s, i + 3) \o At(s, i + 4) \o At(s, i + 5)))
             ELSE Fail
        ELSE StringBody(s, i + 1, Append(acc, c))

ParseString(s, i) == IF At(s, i) = "\"" THEN StringBody(s, i + 1, <<>>) ELSE Fail

ParseNumber(s, i) ==
    LET int == IF At(s, i) = "-" THEN i + 1 ELSE i
        intLen == IF At(s, int) = "0" THEN 1 ELSE DigitRun(s, int)
        frac == int + intLen
        fracLen == IF At(s, frac) = "." THEN 1 + DigitRun(s, frac + 1) ELSE 0
        exp == frac + fracLen
        sign == IF At(s, exp + 1) \in {"+", "-"} THEN 1 ELSE 0
        expLen == IF At(s, exp) \in {"e", "E"}
                  THEN 1 + sign + DigitRun(s, exp + 1 + sign) ELSE 0
    IN  IF intLen = 0 \/ fracLen = 1 \/ expLen = 1 + sign THEN Fail
        ELSE Ok(exp + expLen, [t |-> "num", v |-> Substring(s, i, exp + expLen)])

ParseLiteral(s, i, word) ==
    IF i + Len(word) <= Len(s) /\ Substring(s, i, i + Len(word)) = word
    THEN Ok(i + Len(word), [t |-> "lit", v |-> word])
    ELSE Fail

\* obj[k] = val for the members obj
PutMember(obj, k, val) ==
    IF \E n \in 1..Len(obj) : obj[n].k = k
    THEN [n \in 1..Len(obj) |-> IF obj[n].k = k THEN [k |-> k, val |-> val] ELSE obj[n]]
    ELSE Append(obj, [k |-> k, val |-> val])

RECURSIVE ParseValue(_, _), ParseElements(_, _, _), ParseMembers(_, _, _)

\* The elements of an array from index i on, up to and including its "]"
ParseElements(s, i, acc) ==
    LET e == ParseValue(s, i)
        j == SkipWs(s, e.pos)
    IN  IF ~e.ok THEN Fail
        ELSE IF At(s, j) = "," THEN ParseElements(s, SkipWs(s, j + 1), Append(acc, e.val))
        ELSE IF At(s, j) = "]" THEN Ok(j + 1, [t |-> "arr", v |-> Append(acc, e.val)])
        ELSE Fail

\* The members of an object from index i on, up to and including its "}"
ParseMembers(s, i, acc) ==
    LET key == ParseString(s, i)
        colon == SkipWs(s, key.pos)
        m == ParseValue(s, SkipWs(s, colon + 1))
        j == SkipWs(s, m.pos)
    IN  IF ~key.ok \/ At(s, colon) # ":" THEN Fail
        ELSE IF ~m.ok THEN Fail
        ELSE IF At(s, j) = ","
        THEN ParseMembers(s, SkipWs(s, j + 1), PutMember(acc, key.val.v, m.val))
        ELSE IF At(s, j) = "}"
        THEN Ok(j + 1, [t |-> "obj", v |-> PutMember(acc, key.val.v, m.val)])
        ELSE Fail

ParseValue(s, i) ==
    LET c == At(s, i)
    IN  CASE c = "{" ->
                 IF At(s, SkipWs(s, i + 1)) = "}"
                 THEN Ok(SkipWs(s, i + 1) + 1, [t |-> "obj", v |-> <<>>])
                 ELSE ParseMembers(s, SkipWs(s, i + 1), <<>>)
          [] c = "[" ->
                 IF At(s, SkipWs(s, i + 1)) = "]"
                 THEN Ok(SkipWs(s, i + 1) + 1, [t |-> "arr", v |-> <<>>])
                 ELSE ParseElements(s, SkipWs(s, i + 1), <<>>)
          [] c = "\"" -> ParseString(s, i)
          [] c = "t" -> ParseLiteral(s, i, <<"t", "r", "u", "e">>)
          [] c = "f" -> ParseLiteral(s, i, <<"f", "a", "l", "s", "e">>)
          [] c = "n" -> ParseLiteral(s, i, <<"n", "u", "l", "l">>)
          [] OTHER -> ParseNumber(s, i)

\* JSON.parse(s): the value, or a SyntaxError (ok = FALSE)
JsonParse(s) ==
    LET r == ParseValue(s, SkipWs(s, 0))
    IN  IF r.ok /\ SkipWs(s, r.pos) = Len(s)
        THEN [ok |-> TRUE, val |-> r.val]
        ELSE [ok |-> FALSE, val |-> NoValue]

-----------------------------------------------------------------------------
(* JavaScript property lookup on a plain object: an own property, else a   *)
(* property inherited from Object.prototype, else undefined.               *)

\* The property names every plain object inherits from Object.prototype
ObjectPrototypeKeys ==
    {"constructor", "__proto__", "hasOwnProperty", "isPrototypeOf",
     "propertyIsEnumerable", "toLocaleString", "toString", "valueOf"}

\* A JavaScript value as the lookups see it: a number, undefined, or some
\* other (truthy) object or function.
JsNumber(n) == [kind |-> "number", val |-> n]
JsUndefined == [kind |-> "undefined", val |-> 0]
JsObject == [kind |-> "object", val |-> 0]

Truthy(v) == v.kind = "object" \/ (v.kind = "number" /\ v.val # 0)

\* a || b
OrElse(a, b) == IF Truthy(a) THEN a ELSE b

\* The characters of s as one string
RECURSIVE JoinChars(_)
JoinChars(s) == IF s = <<>> THEN "" ELSE Head(s) \o JoinChars(Tail(s))

\* .replace(/\s+/g, '_'), matching from index i on
RECURSIVE ReplaceSpaceRuns(_, _)
ReplaceSpaceRuns(s, i) ==
    IF i >= Len(s) THEN <<>>
    ELSE IF SpaceRun(s, i) > 0
    THEN <<"_">> \o ReplaceSpaceRuns(s, i + SpaceRun(s, i))
    ELSE <<CharAt(s, i)>> \o ReplaceSpaceRuns(s, i + 1)

-----------------------------------------------------------------------------
(* getRequiredKeyframeCount                                                *)

table ==
    [d \in {"30_seconds", "1_minute", "3_minutes", "5_minutes", "8_minutes", "10_minutes"} |->
        CASE d = "30_seconds" -> [concise |-> 4, standard |-> 5, detailed |-> 6]
          [] d = "1_minute"   -> [concise |-> 6, standard |-> 8, detailed |-> 10]
          [] d = "3_minutes"  -> [concise |-> 10, standard |-> 14, detailed |-> 18]
          [] d = "5_minutes"  -> [concise |-> 14, standard |-> 20, detailed |-> 26]
          [] d = "8_minutes"  -> [concise |-> 18, standard |-> 26, detailed |-> 34]
          [] d = "10_minutes" -> [concise |-> 20, standard |-> 30, detailed |-> 40]]

\* value[key] for a value inherited from Object.prototype under the name
\* outer (Object.prototype.constructor is the function Object, whose length
\* is 1; Object.prototype.__proto__ is null)
InheritedMember(outer, key) ==
    IF outer = "__proto__" THEN JsUndefined
    ELSE IF key = "length" THEN JsNumber(1)
    ELSE IF key \in ObjectPrototypeKeys \cup {"name", "prototype"} THEN JsObject
    ELSE JsUndefined

\* table[dKey]?.[denKey]
TableCell(dKey, denKey) ==
    IF dKey \in DOMAIN table
    THEN IF denKey \in DOMAIN table[dKey] THEN JsNumber(table[dKey][denKey])
         ELSE IF denKey \in ObjectPrototypeKeys THEN JsObject
         ELSE JsUndefined
    ELSE IF dKey = "__proto__"
    THEN IF denKey \in ObjectPrototypeKeys \ {"__proto__"} THEN JsObject ELSE JsUndefined
    ELSE IF dKey \in ObjectPrototypeKeys THEN InheritedMember(dKey, denKey)
    ELSE JsUndefined

\* getRequiredKeyframeCount without its toLowerCase() calls
getRequiredKeyframeCount_CaseSensitive(duration_, density_) ==
    OrElse(TableCell(JoinChars(ReplaceSpaceRuns(duration_, 0)), JoinChars(density_)),
           JsNumber(8))

getRequiredKeyframeCount(duration_, density_) ==
    LET dKey == JoinChars(ReplaceSpaceRuns(ToLowerCase(duration_), 0))
        denKey == JoinChars(ToLowerCase(density_))
    IN  OrElse(TableCell(dKey, denKey), JsNumber(8))

-----------------------------------------------------------------------------
(* VISUAL_STYLE_PRESETS and the style resolution of generateMoviePackage.  *)
(* The em dash of the four Stickman names is written "--".                 *)

PresetNames ==
    {"Stickman -- 2D Classic",
     "Stickman -- Blueprint",
     "Stickman -- Chalkboard",
     "Stickman -- 3D Render",
     "Clay Animation",
     "Studio Ghibli",
     "Retro Anime",
     "Pixar Style",
     "Stop-motion Animation",
     "Cutout Animation",
     "3D CGI Animation",
     "Cinematic 8K",
     "Documentary",
     "Cyberpunk",
     "Film Noir",
     "Low-Key Thriller"}

\* What reading a field of a value that is no preset gives
NoPreset ==
    [image_style |-> "undefined", video_style |-> "undefined",
     recommended_vst |-> "undefined"]

\* VISUAL_STYLE_PRESETS[name] for an own key name
VISUAL_STYLE_PRESETS(name) ==
    IF name = "Stickman -- 2D Classic" THEN
        [image_style |-> "2D classic stickman animation, clean vector linework, flat shapes",
         video_style |-> "2D classic stickman motion, smooth tweened animation, stable linework",
         recommended_vst |-> "VST_01 Clean Digital Cinema"]
    ELSE
    IF name = "Stickman -- Blueprint" THEN
        [image_style |-> "blueprint schematic style, cyan grid, white technical line drawings",
         video_style |-> "blueprint line-reveal animation, technical callout pop-ins",
         recommended_vst |-> "VST_14 Matte Minimalist"]
    ELSE
    IF name = "Stickman -- Chalkboard" THEN
        [image_style |-> "chalkboard sketch style, rough chalk strokes, dusty smudges",
         video_style |-> "chalk-writing reveal animation, smudge transitions, chalk dust",
         recommended_vst |-> "VST_05 Overcast Documentary"]
    ELSE
    IF name = "Stickman -- 3D Render" THEN
        [image_style |-> "simple 3D stick-figure render, smooth plastic, soft studio light",
         video_style |-> "simple 3D character animation, smooth keyframed motion",
         recommended_vst |-> "VST_09 High-Key Commercial"]
    ELSE
    IF name = "Clay Animation" THEN
        [image_style |-> "clay animation style, handcrafted clay textures, fingerprints",
         video_style |-> "claymation motion, stop-motion jitter, tactile deformations",
         recommended_vst |-> "VST_02 Warm Indie Drama"]
    ELSE
    IF name = "Studio Ghibli" THEN
        [image_style |-> "Studio Ghibli aesthetic, hand-painted watercolor anime, soft edges",
         video_style |-> "painterly animation feel, gentle parallax pans, soft light transitions",
         recommended_vst |-> "VST_08 Soft Pastel Dream"]
    ELSE
    IF name = "Retro Anime" THEN
        [image_style |-> "retro 90s anime cel style, ink lines, limited shading, halation",
         video_style |-> "retro cel animation, limited-frame cadence, classic anime holds",
         recommended_vst |-> "VST_06 Retro 35mm Film"]
    ELSE
    IF name = "Pixar Style" THEN
        [image_style |-> "stylized 3D family animation look, expressive faces, global illumination",
         video_style |-> "stylized 3D animation, smooth character arcs, cinematic DOF",
         recommended_vst |-> "VST_09 High-Key Commercial"]
    ELSE
    IF name = "Stop-motion Animation" THEN
        [image_style |-> "miniature practical set, handmade props, tactile textures",
         video_style |-> "stop-motion feel, frame jitter, miniature parallax",
         recommended_vst |-> "VST_07 Vintage 16mm Home-Movie"]
    ELSE
    IF name = "Cutout Animation" THEN
        [image_style |-> "2D cutout puppet look, layered paper shapes, crisp silhouettes",
         video_style |-> "cutout puppet motion, hinge-like limb movement, layered parallax",
         recommended_vst |-> "VST_14 Matte Minimalist"]
    ELSE
    IF name = "3D CGI Animation" THEN
        [image_style |-> "high quality 3D CGI frame, detailed materials, cinematic lighting",
         video_style |-> "3D CGI cinematic, smooth camera moves, realistic motion blur",
         recommended_vst |-> "VST_11 Anamorphic Cinematic"]
    ELSE
    IF name = "Cinematic 8K" THEN
        [image_style |-> "ultra-detailed cinematic realism, crisp textures, shallow DOF",
         video_style |-> "cinematic realism, slow dolly tracking, realistic motion blur",
         recommended_vst |-> "VST_11 Anamorphic Cinematic"]
    ELSE
    IF name = "Documentary" THEN
        [image_style |-> "documentary realism, natural lighting, candid framing",
         video_style |-> "documentary camera language, handheld shake, natural ambience",
         recommended_vst |-> "VST_05 Overcast Documentary"]
    ELSE
    IF name = "Cyberpunk" THEN
        [image_style |-> "cyberpunk neon city, wet reflective streets, magenta/cyan practicals",
         video_style |-> "neon noir cinematic, slow tracking, volumetric haze motion",
         recommended_vst |-> "VST_12 Neon Night City"]
    ELSE
    IF name = "Film Noir" THEN
        [image_style |-> "film noir, classic monochrome, hard shadows, dramatic contrast",
         video_style |-> "noir pacing, slow push-in, chiaroscuro lighting, smoke drift",
         recommended_vst |-> "VST_13 Black & White Classic"]
    ELSE
    IF name = "Low-Key Thriller" THEN
        [image_style |-> "low-key thriller lighting, deep shadows, tight contrast",
         video_style |-> "suspense pacing, slow dolly in, handheld tension",
         recommended_vst |-> "VST_10 Low-Key Thriller"]
    ELSE NoPreset

\* VISUAL_STYLE_PRESETS[input.visualStyle] || VISUAL_STYLE_PRESETS["Studio Ghibli"]
ResolveStylePreset(name) ==
    IF name \in PresetNames THEN VISUAL_STYLE_PRESETS(name)
    ELSE IF name \in ObjectPrototypeKeys THEN NoPreset
    ELSE VISUAL_STYLE_PRESETS("Studio Ghibli")

-----------------------------------------------------------------------------
(* The values the normalisation of generateMoviePackage works on: the      *)
(* values JSON.parse returns, and undefined for a property that is absent. *)

UndefinedValue == [t |-> "undefined", v |-> <<>>]
JStr(chars) == [t |-> "str", v |-> chars]
JArr(vs) == [t |-> "arr", v |-> vs]
JObj(members) == [t |-> "obj", v |-> members]

Nullish(val) ==
    \/ val.t = "undefined"
    \/ (val.t = "lit" /\ val.v = <<"n", "u", "l", "l">>)

\* val.key, for a key that no prototype defines
Member(val, key) ==
    IF val.t = "obj" /\ \E n \in 1..Len(val.v) : val.v[n].k = key
    THEN val.v[CHOOSE n \in 1..Len(val.v) : val.v[n].k = key].val
    ELSE UndefinedValue

\* val?.key
OptionalMember(val, key) == IF Nullish(val) THEN UndefinedValue ELSE Member(val, key)

\* A number literal that is not zero: a digit other than 0 in its mantissa
NonZero(digits) ==
    \E i \in 1..Len(digits) :
        /\ digits[i] \in Digits \ {"0"}
        /\ \A j \in 1..(i - 1) : digits[j] \notin {"e", "E"}

ValueTruthy(val) ==
    CASE val.t = "str" -> val.v # <<>>
      [] val.t = "num" -> NonZero(val.v)
      [] val.t = "lit" -> val.v = <<"t", "r", "u", "e">>
      [] val.t \in {"arr", "obj"} -> TRUE
      [] OTHER -> FALSE

\* a || b
OrValue(a, b) == IF ValueTruthy(a) THEN a ELSE b

\* ToIntegerOrInfinity of the end argument of slice: NaN counts as 0
ToInteger(k) == IF k.kind = "number" THEN k.val ELSE 0

\* A slice that keeps every entry
Slice_All(vs, end) == vs

\* vs.slice(0, end)
Slice(vs, end) == SubSeq(vs, 1, IF end < Len(vs) THEN end ELSE Len(vs))

MetadataKey == <<"m", "e", "t", "a", "d", "a", "t", "a">>
TopicKey == <<"t", "o", "p", "i", "c">>
MoodKey == <<"m", "o", "o", "d">>
SeoKey == <<"s", "e", "o">>
StoryKey == <<"s", "t", "o", "r", "y">>
TitlesKey ==
    <<"k", "e", "y", "f", "r", "a", "m", "e", "_", "p", "l", "a", "n", "_",
      "t", "i", "t", "l", "e", "s">>
VisualPromptsKey ==
    <<"v", "i", "s", "u", "a", "l", "P", "r", "o", "m", "p", "t", "s">>
LabelKey == <<"l", "a", "b", "e", "l">>

SeoFields ==
    <<<<"b", "e", "s", "t", "T", "i", "t", "l", "e">>,
      <<"a", "l", "t", "T", "i", "t", "l", "e", "s">>,
      <<"v", "i", "d", "e", "o", "D", "e", "s", "c", "r", "i", "p", "t", "i",
        "o", "n">>,
      <<"t", "a", "g", "s">>,
      <<"h", "a", "s", "h", "t", "a", "g", "s">>,
      <<"t", "h", "u", "m", "b", "n", "a", "i", "l", "P", "r", "o", "m", "p",
        "t">>,
      <<"s", "u", "n", "o", "P", "r", "o", "m", "p", "t">>>>

\* { bestTitle: "Untitled", altTitles: [], videoDescription: "", ... }
DefaultSeo ==
    JObj([n \in 1..Len(SeoFields) |->
             [k |-> SeoFields[n],
              val |-> IF n = 1 THEN JStr(<<"U", "n", "t", "i", "t", "l", "e", "d">>)
                      ELSE IF n = 2 THEN JArr(<<>>) ELSE JStr(<<>>)]])

Cinematic == <<"C", "i", "n", "e", "m", "a", "t", "i", "c">>
Scene == <<"S", "c", "e", "n", "e">>

NoPackage == [none |-> TRUE]
NoFrames == <<>>

\* The TypeError of p.label for p null (the message V8 gives it)
NullLabelMessage ==
    <<"C", "a", "n", "n", "o", "t", " ", "r", "e", "a", "d", " ", "p", "r",
      "o", "p", "e", "r", "t", "i", "e", "s", " ", "o", "f", " ", "n", "u",
      "l", "l", " ", "(", "r", "e", "a", "d", "i", "n", "g", " ", "'", "l",
      "a", "b", "e", "l", "'", ")">>

\* validPrompts.map((p: any) => p.label || "Scene")
SceneTitles(validPrompts) ==
    JArr([i \in 1..Len(validPrompts) |->
             OrValue(Member(validPrompts[i], LabelKey), JStr(Scene))])

\* The statements between JSON.parse and the end of the try block: the
\* package returned, or the TypeError thrown on the way.
Normalize(data_, script_, visualStyle_, aspectRatio_, duration_, keyframeTotal_, stylePreset_) ==
    LET given == Member(data_, VisualPromptsKey)
        validPrompts ==
            Slice(IF given.t = "arr" THEN given.v ELSE <<>>, ToInteger(keyframeTotal_))
        metadata == Member(data_, MetadataKey)
        titles == Member(data_, TitlesKey)
    IN  IF ~ValueTruthy(titles) /\ \E i \in 1..Len(validPrompts) : Nullish(validPrompts[i])
        THEN [threw |-> TRUE, message |-> NullLabelMessage, pkg |-> NoPackage]
        ELSE [threw |-> FALSE, message |-> <<>>,
              pkg |->
                [metadata |->
                   [topic |-> OrValue(OptionalMember(metadata, TopicKey),
                                      JStr(Substring(script_, 0,
                                               IF Len(script_) < 30 THEN Len(script_) ELSE 30))),
                    mood |-> OrValue(OptionalMember(metadata, MoodKey), JStr(Cinematic)),
                    visualStyle |-> visualStyle_,
                    aspectRatio |-> aspectRatio_,
                    duration |-> duration_],
                 seo |-> OrValue(Member(data_, SeoKey), DefaultSeo),
                 story |-> OrValue(Member(data_, StoryKey), JStr(script_)),
                 titles |-> IF ValueTruthy(titles) THEN titles ELSE SceneTitles(validPrompts),
                 visualPrompts |-> JArr(validPrompts),
                 audioMap |-> JArr(<<>>),
                 cst |-> "", bst |-> "", gst |-> "",
                 vst |-> stylePreset_.recommended_vst]]

-----------------------------------------------------------------------------
(* Errors: the message of the Error a step throws                          *)

\* s.includes(sub)
Includes(s, sub) ==
    \E i \in 0..(Len(s) - Len(sub)) : Substring(s, i, i + Len(sub)) = sub

NoError == [message |-> <<>>, origin |-> "none"]

StructuralFailureMessage ==
    <<"J", "S", "O", "N", "_", "S", "T", "R", "U", "C", "T", "U", "R", "A",
      "L", "_", "F", "A", "I", "L", "U", "R", "E", ":", " ", "R", "e", "s",
      "p", "o", "n", "s", "e", " ", "w", "a", "s", " ", "t", "r", "u", "n",
      "c", "a", "t", "e", "d", " ", "o", "r", " ", "i", "n", "v", "a", "l",
      "i", "d", ".", " ", "P", "l", "e", "a", "s", "e", " ", "s", "h", "o",
      "r", "t", "e", "n", " ", "s", "c", "r", "i", "p", "t", " ", "o", "r",
      " ", "r", "e", "d", "u", "c", "e", " ", "d", "e", "n", "s", "i", "t",
      "y", ".">>

QuotaExhaustedMessage ==
    <<"Q", "U", "O", "T", "A", " ", "E", "X", "H", "A", "U", "S", "T", "E",
      "D", ":", " ", "Y", "o", "u", "r", " ", "A", "P", "I", " ", "k", "e",
      "y", " ", "h", "a", "s", " ", "r", "e", "a", "c", "h", "e", "d", " ",
      "i", "t", "s", " ", "l", "i", "m", "i", "t", ".", " ", "W", "a", "i",
      "t", " ", "6", "0", "s", " ", "o", "r", " ", "s", "w", "i", "t", "c",
      "h", " ", "t", "o", " ", "a", " ", "p", "a", "i", "d", " ", "k", "e",
      "y", ".">>

InvalidKeyMessage ==
    <<"A", "P", "I", " ", "K", "e", "y", " ", "n", "o", "t", " ", "v", "a",
      "l", "i", "d", ".", " ", "P", "l", "e", "a", "s", "e", " ", "c", "h",
      "e", "c", "k", " ", "y", "o", "u", "r", " ", "c", "o", "n", "f", "i",
      "g", "u", "r", "a", "t", "i", "o", "n", ".">>

UnknownFailure == <<"U", "n", "k", "n", "o", "w", "n", " ", "f", "a", "i", "l", "u", "r",
      "e">>

GeneratePackageTask ==
    <<"G", "E", "N", "E", "R", "A", "T", "E", "_", "P", "A", "C", "K", "A",
      "G", "E">>

\* err.message.includes("429") || ... "QUOTA" ... || ... "RESOURCE_EXHAUSTED"
IsQuotaError(message) ==
    \/ Includes(message, <<"4", "2", "9">>)
    \/ Includes(message, <<"Q", "U", "O", "T", "A">>)
    \/ Includes(message,
                <<"R", "E", "S", "O", "U", "R", "C", "E", "_", "E", "X", "H",
                  "A", "U", "S", "T", "E", "D">>)

\* msg of handleApiError: the lower-cased message, or the lower-cased
\* error.message of a JSON body the message holds
LoweredMessage(message) ==
    IF message # <<>> /\ message[1] = "{" /\ JsonParse(message).ok
    THEN LET inner == OptionalMember(
                          OptionalMember(JsonParse(message).val,
                                         <<"e", "r", "r", "o", "r">>),
                          <<"m", "e", "s", "s", "a", "g", "e">>)
         IN  IF ValueTruthy(inner) /\ inner.t = "str" THEN ToLowerCase(inner.v)
             ELSE ToLowerCase(message)
    ELSE ToLowerCase(message)

\* A handler that throws the error it is given
handleApiError_Rethrow(message, task) == message

\* A handler that looks for its tokens in the message as it came
handleApiError_CaseSensitive(message, task) ==
    IF \/ Includes(message, <<"4", "2", "9">>)
       \/ Includes(message, <<"q", "u", "o", "t", "a">>)
       \/ Includes(message, <<"l", "i", "m", "i", "t">>)
       \/ Includes(message,
                   <<"r", "e", "s", "o", "u", "r", "c", "e", "_", "e",
                     "x", "h", "a", "u", "s", "t", "e", "d">>)
    THEN QuotaExhaustedMessage
    ELSE IF \/ Includes(message, <<"4", "0", "1">>)
            \/ Includes(message, <<"4", "0", "3">>)
            \/ Includes(message,
                        <<"a", "p", "i", " ", "k", "e", "y", " ", "n",
                          "o", "t", " ", "v", "a", "l", "i", "d">>)
            \/ Includes(message,
                        <<"i", "n", "v", "a", "l", "i", "d", " ", "a",
                          "p", "i", " ", "k", "e", "y">>)
    THEN InvalidKeyMessage
    ELSE <<"E", "n", "g", "i", "n", "e", " ", "F", "a", "i", "l", "u",
           "r", "e", " ", "[">> \o task \o <<"]", ":", " ">>
         \o (IF message = <<>> THEN UnknownFailure ELSE message)

\* The statements of handleApiError after const msg = ...: the message of the
\* Error thrown for this lower-cased message
ThrowFor(msg, task) ==
    IF \/ Includes(msg, <<"4", "2", "9">>)
       \/ Includes(msg, <<"q", "u", "o", "t", "a">>)
       \/ Includes(msg, <<"l", "i", "m", "i", "t">>)
       \/ Includes(msg,
                   <<"r", "e", "s", "o", "u", "r", "c", "e", "_", "e",
                     "x", "h", "a", "u", "s", "t", "e", "d">>)
    THEN QuotaExhaustedMessage
    ELSE IF \/ Includes(msg, <<"4", "0", "1">>)
            \/ Includes(msg, <<"4", "0", "3">>)
            \/ Includes(msg,
                        <<"a", "p", "i", " ", "k", "e", "y", " ", "n",
                          "o", "t", " ", "v", "a", "l", "i", "d">>)
            \/ Includes(msg,
                        <<"i", "n", "v", "a", "l", "i", "d", " ", "a",
                          "p", "i", " ", "k", "e", "y">>)
    THEN InvalidKeyMessage
    ELSE <<"E", "n", "g", "i", "n", "e", " ", "F", "a", "i", "l", "u",
           "r", "e", " ", "[">> \o task \o <<"]", ":", " ">>
         \o (IF msg = <<>> THEN UnknownFailure ELSE msg)

\* The message of the Error handleApiError throws for an error of this message
handleApiError(message, task) == ThrowFor(LoweredMessage(message), task)

GenerateImageTask ==
    <<"G", "E", "N", "E", "R", "A", "T", "E", "_", "I", "M", "A", "G", "E">>

\* throw new Error("No image data returned from Engine.")
NoImageDataMessage ==
    <<"N", "o", " ", "i", "m", "a", "g", "e", " ", "d", "a", "t", "a", " ",
      "r", "e", "t", "u", "r", "n", "e", "d", " ", "f", "r", "o", "m", " ",
      "E", "n", "g", "i", "n", "e", ".">>

-----------------------------------------------------------------------------
(* delayWithJitter: the timer of a quota retry                             *)

BaseDelayMs == 2000     \* Math.pow(2, attempt) * 2000
JitterLimitMs == 1000   \* Math.random() * 1000

\* No timer is running
NoDelay == 0

\* The values Math.random() * 1000 takes, in whole milliseconds
Jitters == {0, 500, JitterLimitMs - 1}

\* A delay that grows by the base delay with every attempt
delayWithJitter_Linear(attempt, jitter) == (attempt + 1) * BaseDelayMs + jitter

\* const baseDelay = Math.pow(2, attempt) * 2000; setTimeout(res, baseDelay + jitter)
delayWithJitter(attempt, jitter) == (2 ^ attempt) * BaseDelayMs + jitter

-----------------------------------------------------------------------------
(* The completions the external model call can return.  The model means to *)
(* emit a well-formed JSON document; the completion is that document,      *)
(* whole, cut off at the output-length limit, wrapped in a markdown fence  *)
(* or followed by further text, or it is arbitrary mangled text.           *)

MaxWidth == 2    \* members or elements per generated object or array
MaxRawLen == 4   \* length of the arbitrary completions

Quote == "\""

SeqsUpTo(S, n) == UNION {[1..k -> S] : k \in 0..n}

\* The texts of vs, separated by commas
RECURSIVE JoinComma(_)
JoinComma(vs) ==
    IF vs = <<>> THEN <<>>
    ELSE IF Len(vs) = 1 THEN vs[1]
    ELSE vs[1] \o <<",">> \o JoinComma(Tail(vs))

JString(chars) == <<Quote>> \o chars \o <<Quote>>
MemberKeys == <<"a", "b", "c", "d">>
JArray(vs) == <<"[">> \o JoinComma(vs) \o <<"]">>
JObject(vs) ==
    <<"{">> \o JoinComma([i \in 1..Len(vs) |-> JString(<<MemberKeys[i]>>) \o <<":">> \o vs[i]])
            \o <<"}">>

Containers(S, w) == {JArray(vs) : vs \in SeqsUpTo(S, w)} \cup {JObject(vs) : vs \in SeqsUpTo(S, w)}

One == <<"1">>
Atoms ==
    {One,
     JString(<<"h", "i">>),
     JString(<<",", " ", "}">>),
     JString(<<"[">>),
     JString(<<"x", "\\", Quote, " ", ":", " ">>)}

FlatDocs == Containers(Atoms, MaxWidth)

\* n values, all 1 but the one at position p
Fill(n, p, v) == [i \in 1..n |-> IF i = p THEN v ELSE One]

\* An object or array with one of the values of S among its members or elements
Around(S) ==
    UNION {{JArray(Fill(n, p, v)), JObject(Fill(n, p, v))} :
              n \in 1..MaxWidth, p \in 1..MaxWidth, v \in S}

NestedDocs == Containers({One}, MaxWidth) \cup Around(Containers({One}, MaxWidth))
DeepDocs == {JObject(<<One, JArray(<<v>>)>>) : v \in Containers({One}, MaxWidth)}
Docs == FlatDocs \cup NestedDocs \cup DeepDocs

\* A top-level value that is no object or array
ScalarDocs == Atoms \cup {<<"t", "r", "u", "e">>}

FenceStyles == {"json", "bare", "upper", "padded"}
Fence(style, d) ==
    CASE style = "json" ->
             <<BT, BT, BT, "j", "s", "o", "n", "\n">> \o d \o <<"\n", BT, BT, BT>>
      [] style = "bare" ->
             <<BT, BT, BT, "\n">> \o d \o <<"\n", BT, BT, BT>>
      [] style = "upper" ->
             <<BT, BT, BT, "J", "S", "O", "N", " ">> \o d \o <<" ", BT, BT, BT>>
      [] style = "padded" ->
             <<" ", "\n", BT, BT, BT, "j", "s", "o", "n", "\n">> \o d
                 \o <<"\n", BT, BT, BT, "\n", " ">>

Trailers ==
    {<<"}", "}">>, <<"]">>, <<" ", "o", "k">>, <<",", "{">>, <<Quote>>, <<"\n", "[", "1">>}

\* Commentary before the document: text with no brace and no bracket
Leaders ==
    {<<"H", "e", "r", "e", " ", "y", "o", "u", " ", "g", "o", ":", " ">>,
     <<"o", "k", "\n">>,
     <<"j", "s", "o", "n", ":">>}

RawAlphabet == {"{", "}", "[", "]", Quote, ",", "\\", "a", " "}

-----------------------------------------------------------------------------
(* The labels a request can carry.  The form offers the six durations and  *)
(* three densities below and the sixteen preset names; the exported        *)
(* generateMoviePackage takes any strings.                                 *)

MaxGap == 2   \* white space characters between two words of a label

UpperChar(c) ==
    IF \E i \in 1..26 : LowerCase[i] = c
    THEN UpperCase[CHOOSE i \in 1..26 : LowerCase[i] = c]
    ELSE c
ToUpperCase(s) == [i \in 1..Len(s) |-> UpperChar(s[i])]

\* s with every space replaced by n copies of the white space character w
RECURSIVE Respace(_, _, _)
Respace(s, w, n) ==
    IF s = <<>> THEN <<>>
    ELSE (IF Head(s) = " " THEN Repeat(w, n) ELSE <<Head(s)>>) \o Respace(Tail(s), w, n)

Spellings(l) ==
    {l, ToLowerCase(l), ToUpperCase(l)}
    \cup {Respace(l, " ", n) : n \in 1..MaxGap}
    \cup {Respace(ToLowerCase(l), "\t", n) : n \in 1..MaxGap}

Seconds == <<"S", "e", "c", "o", "n", "d", "s">>
Minute == <<"M", "i", "n", "u", "t", "e">>
Minutes == Minute \o <<"s">>
Constructor == <<"c", "o", "n", "s", "t", "r", "u", "c", "t", "o", "r">>
Proto == <<"_", "_", "p", "r", "o", "t", "o", "_", "_">>

\* const durations of InputForm
FormDurations ==
    {<<"3", "0", " ">> \o Seconds, <<"1", " ">> \o Minute, <<"3", " ">> \o Minutes,
     <<"5", " ">> \o Minutes, <<"8", " ">> \o Minutes, <<"1", "0", " ">> \o Minutes}

\* type SceneDensity
FormDensities ==
    {<<"C", "o", "n", "c", "i", "s", "e">>, <<"S", "t", "a", "n", "d", "a", "r", "d">>,
     <<"D", "e", "t", "a", "i", "l", "e", "d">>}

BaseDurations == FormDurations \cup {<<"1", "7", " ">> \o Minutes}
BaseDensities ==
    FormDensities
    \cup {<<"E", "x", "t", "r", "e", "m", "e">>, Constructor,
          <<"V", "e", "r", "y", " ", "D", "e", "t", "a", "i", "l", "e", "d">>}

DurationLabels ==
    UNION {Spellings(l) : l \in BaseDurations}
    \cup {<<>>, <<"1">> \o Minute, <<" ", "1", " ">> \o Minute, Constructor, Proto}

DensityLabels ==
    UNION {Spellings(l) : l \in BaseDensities}
    \cup {<<>>, Proto, <<"l", "e", "n", "g", "t", "h">>}

StyleNames ==
    PresetNames
    \cup {"NotARealStyle", "", "studio ghibli", "constructor", "toString", "__proto__"}

-----------------------------------------------------------------------------
(* The requests and completions of a whole generation request: documents   *)
(* whose package fields are absent, null, partly present or of the wrong   *)
(* shape, a document cut off at every length, and rejected model calls.    *)

\* The selection the form starts with
DefaultDuration == <<"1", " ">> \o Minute
DefaultDensity == <<"S", "t", "a", "n", "d", "a", "r", "d">>
DefaultStyle == "Studio Ghibli"

MaxPrompts == 5   \* entries of the visualPrompts array the model returns

NullText == <<"n", "u", "l", "l">>
DigitChar(i) == <<"0", "1", "2", "3", "4", "5", "6", "7", "8", "9">>[i + 1]

\* The text of the member key: valueText, nothing for an absent member
Field(key, valueText) ==
    IF valueText = <<>> THEN <<>> ELSE JString(key) \o <<":">> \o valueText

\* The text of the object of the given fields
JObjectOf(fields) ==
    LET Present(f) == f # <<>>
    IN  <<"{">> \o JoinComma(SelectSeq(fields, Present)) \o <<"}">>

MetadataTexts ==
    {<<>>, NullText,
     JObjectOf(<<Field(TopicKey, JString(<<"T">>))>>),
     JObjectOf(<<Field(TopicKey, JString(<<"T">>)), Field(MoodKey, JString(<<"M">>))>>),
     JObjectOf(<<Field(TopicKey, <<"5">>)>>)}

FullSeoText ==
    JObjectOf([n \in 1..Len(SeoFields) |->
                  Field(SeoFields[n], IF n = 2 THEN JArray(<<JString(<<"A">>)>>)
                                      ELSE JString(<<"s">>))])

SeoTexts ==
    {<<>>, NullText, JString(<<"x">>), FullSeoText,
     JObjectOf(<<Field(SeoFields[1], JString(<<"B">>))>>)}

StoryTexts == {<<>>, <<"5">>, JString(<<>>), JString(<<"S">>)}

TitlesTexts == {<<>>, NullText, JString(<<"x">>), JArray(<<JString(<<"T">>)>>)}

\* The i-th entry of a visualPrompts array
Prompt(i) == JObjectOf(<<Field(LabelKey, JString(<<DigitChar(i)>>))>>)

PromptLists == {JArray([i \in 1..n |-> Prompt(i)]) : n \in 0..MaxPrompts}

OddPrompts ==
    {<<>>, NullText, Prompt(1),
     JArray(<<NullText>>),
     JArray(<<Prompt(1), NullText>>),
     JArray(<<One, Prompt(1)>>),
     JArray(<<JObjectOf(<<Field(<<"p", "r", "o", "m", "p", "t">>, JString(<<"p">>))>>)>>),
     JArray(<<JObjectOf(<<Field(LabelKey, JString(<<>>))>>)>>)}

\* A package document to cut off
CutDoc ==
    JObjectOf(<<Field(StoryKey, JString(<<"S">>)),
                Field(VisualPromptsKey, JArray(<<Prompt(1), Prompt(2)>>))>>)

\* The body of the response to a call with a key the service does not accept
KeyNotValidBody ==
    <<"{", "\"", "e", "r", "r", "o", "r", "\"", ":", "{", "\"", "c", "o",
      "d", "e", "\"", ":", "4", "0", "0", ",", "\"", "m", "e", "s", "s",
      "a", "g", "e", "\"", ":", "\"", "A", "P", "I", " ", "k", "e", "y",
      " ", "n", "o", "t", " ", "v", "a", "l", "i", "d", ".", "\"", "}", "}">>

\* The messages of the errors a rejected generateContent call carries
ApiErrors ==
    {<<"4", "2", "9", " ", "T", "o", "o", " ", "M", "a", "n", "y", " ", "R",
       "e", "q", "u", "e", "s", "t", "s">>,
     <<"Q", "u", "o", "t", "a", " ", "e", "x", "c", "e", "e", "d", "e", "d">>,
     <<"f", "e", "t", "c", "h", " ", "f", "a", "i", "l", "e", "d">>,
     KeyNotValidBody}

ShortScript == <<"H", "i">>
LongScript ==
    <<"A", " ", "l", "i", "g", "h", "t", "h", "o", "u", "s", "e", " ", "k",
      "e", "e", "p", "e", "r", " ", "f", "i", "n", "d", "s", " ", "a", " ",
      "m", "a", "p", " ", "i", "n", " ", "a", " ", "b", "o", "t", "t", "l",
      "e", ".">>

\* The (videoDuration, sceneDensity, script) of the requests
PackageRequests ==
    {<<<<"3", "0", " ">> \o Seconds, <<"C", "o", "n", "c", "i", "s", "e">>, ShortScript>>,
     <<DefaultDuration, DefaultDensity, LongScript>>,
     <<<<"3", "0", " ">> \o Seconds, DefaultDensity, ShortScript>>}

-----------------------------------------------------------------------------
(* The values of the user gate: the users Firebase Auth knows, the         *)
(* documents of the collection "users", and the state of the root App.     *)
(* null and a missing document are records of the same fields.             *)

ADMIN_EMAIL == "saltudio@gmail.com"

\* The uids of the accounts
Uids == {"admin", "alice"}
EmailOf(uid) == IF uid = "admin" THEN ADMIN_EMAIL ELSE "alice@example.com"

\* null for the auth user, and the User of an account
NoUser == [uid |-> "", email |-> ""]
AuthUser(uid) == [uid |-> uid, email |-> EmailOf(uid)]

\* type UserStatus
Statuses == {"pending", "approved", "blocked"}

\* null for a profile and the snapshot of a missing document; the data of a
\* document.  A status of "" is a document that has no status field.
NoProfile == [exists |-> FALSE, uid |-> "", email |-> "", status |-> ""]
Profile(uid, email, status) ==
    [exists |-> TRUE, uid |-> uid, email |-> email, status |-> status]

\* No subscription
NoListener == 0

\* const [user, setUser] = useState(null); ... useState(true) for loading;
\* let unsubscribeProfile = null
AppMounted ==
    [user |-> NoUser, userData |-> NoProfile, loading |-> TRUE,
     profileLoading |-> FALSE, isAdminView |-> FALSE, authError |-> "",
     unsubscribeProfile |-> NoListener]

\* The gate as the machines of the engine leave it: nobody signed in, no
\* document, nothing in flight
AppIdle ==
    /\ auth = ""
    /\ app = AppMounted
    /\ listeners = {}
    /\ tasks = <<>>
    /\ users = [u \in Uids |-> NoProfile]
    /\ written = [u \in Uids |-> "none"]

\* process.env.API_KEY: its length, and whether the service accepts it
NoKey == [length |-> 0, valid |-> FALSE]
ShortKey == [length |-> 10, valid |-> FALSE]
RevokedKey == [length |-> 39, valid |-> FALSE]
GoodKey == [length |-> 39, valid |-> TRUE]

\* const [loading, setLoading] = useState(false); productionData starts null,
\* isKeyReady and isKeyManagerOpen false
MainAppMounted ==
    [isKeyReady |-> FALSE, isKeyManagerOpen |-> FALSE, loading |-> FALSE,
     productionData |-> FALSE]

\* The main app as the other machines leave it
KeyIdle ==
    /\ apiKey = NoKey
    /\ keyApp = MainAppMounted
    /\ lastEvent = "none"

-----------------------------------------------------------------------------
(* The state machines                                                      *)

NoData == [ok |-> FALSE, val |-> NoValue]

\* A request of the form's initial selection, waiting for the model's answer
Init ==
    /\ pc = "calling"
    /\ how = "none"
    /\ doc = <<>>
    /\ text = Undefined
    /\ rawJson = <<>>
    /\ data = NoData
    /\ duration = DefaultDuration
    /\ density = DefaultDensity
    /\ visualStyle = DefaultStyle
    /\ keyframeTotal = getRequiredKeyframeCount(DefaultDuration, DefaultDensity)
    /\ stylePreset = ResolveStylePreset(DefaultStyle)
    /\ script = <<>>
    /\ aspectRatio = "16:9"
    /\ retryCount = 0
    /\ err = NoError
    /\ pkg = NoPackage
    /\ calls = 0
    /\ parseRetries = 0
    /\ delay = NoDelay
    /\ frames = NoFrames
    /\ AppIdle
    /\ KeyIdle

\* const response = await ai.models.generateContent(...), whose text is t
Respond(h, d, t) ==
    /\ how' = h
    /\ doc' = d
    /\ text' = t
    /\ pc' = "responded"
    /\ UNCHANGED <<rawJson, data>>
    /\ UNCHANGED <<lookupVars, packageVars, pureVars, appVars, keyVars>>

\* response.text is undefined
RespondUndefined ==
    /\ pc = "calling"
    /\ Respond("undefined", <<>>, Undefined)

\* response.text is any short text
RespondRaw ==
    /\ pc = "calling"
    /\ \E k \in 0..MaxRawLen : \E t \in [1..k -> RawAlphabet] : Respond("raw", <<>>, Str(t))

\* response.text is a well-formed document
RespondWhole ==
    /\ pc = "calling"
    /\ \E d \in Docs \cup ScalarDocs : Respond("whole", d, Str(d))

\* response.text is a document cut off by the output token limit
RespondCut ==
    /\ pc = "calling"
    /\ \E d \in Docs : \E k \in 1..(Len(d) - 1) : Respond("cut", d, Str(SubSeq(d, 1, k)))

\* response.text is a document inside a Markdown code fence
RespondFenced ==
    /\ pc = "calling"
    /\ \E d \in Docs, f \in FenceStyles : Respond("fenced", d, Str(Fence(f, d)))

\* response.text is a document followed by further text
RespondTrailing ==
    /\ pc = "calling"
    /\ \E d \in Docs, t \in Trailers : Respond("trailing", d, Str(d \o t))

\* response.text is a document after some commentary
RespondLeading ==
    /\ pc = "calling"
    /\ \E d \in Docs, l \in Leaders : Respond("leading", d, Str(l \o d))

\* const rawJson = cleanJsonString(response.text)
Clean ==
    /\ pc = "responded"
    /\ rawJson' = cleanJsonString(text)
    /\ pc' = "cleaned"
    /\ UNCHANGED <<how, doc, text, data>>
    /\ UNCHANGED <<lookupVars, packageVars, pureVars, appVars, keyVars>>

\* try { data = JSON.parse(rawJson) } catch (e) { ... }
Parse ==
    /\ pc = "cleaned"
    /\ data' = JsonParse(rawJson)
    /\ pc' = IF data'.ok THEN "parsed" ELSE "failed"
    /\ UNCHANGED <<how, doc, text, rawJson>>
    /\ UNCHANGED <<lookupVars, packageVars, pureVars, appVars, keyVars>>

Next ==
    \/ RespondUndefined
    \/ RespondRaw
    \/ RespondWhole
    \/ RespondCut
    \/ RespondFenced
    \/ RespondTrailing
    \/ RespondLeading
    \/ Clean
    \/ Parse

Spec == Init /\ [][Next]_vars

\* The form before it is submitted
InitLookup ==
    /\ pc = "idle"
    /\ how = "none"
    /\ doc = <<>>
    /\ text = Undefined
    /\ rawJson = <<>>
    /\ data = NoData
    /\ duration = DefaultDuration
    /\ density = DefaultDensity
    /\ visualStyle = DefaultStyle
    /\ keyframeTotal = JsUndefined
    /\ stylePreset = NoPreset
    /\ script = <<>>
    /\ aspectRatio = "16:9"
    /\ retryCount = 0
    /\ err = NoError
    /\ pkg = NoPackage
    /\ calls = 0
    /\ parseRetries = 0
    /\ delay = NoDelay
    /\ frames = NoFrames
    /\ AppIdle
    /\ KeyIdle

\* onSubmit({ script, visualStyle, sceneDensity, ..., videoDuration, ... })
Submit ==
    /\ pc = "idle"
    /\ duration' \in DurationLabels
    /\ density' \in DensityLabels
    /\ visualStyle' \in StyleNames
    /\ pc' = "submitted"
    /\ UNCHANGED <<keyframeTotal, stylePreset>>
    /\ UNCHANGED <<recoverVars, packageVars, pureVars, appVars, keyVars>>

\* The first statements of generateMoviePackage
Lookup ==
    /\ pc = "submitted"
    /\ keyframeTotal' = getRequiredKeyframeCount(duration, density)
    /\ stylePreset' = ResolveStylePreset(visualStyle)
    /\ pc' = "prompted"
    /\ UNCHANGED <<duration, density, visualStyle>>
    /\ UNCHANGED <<recoverVars, packageVars, pureVars, appVars, keyVars>>

NextLookup == Submit \/ Lookup

SpecLookup == InitLookup /\ [][NextLookup]_vars

-----------------------------------------------------------------------------
(* A generation request: generateMoviePackage(input), its model calls, its *)
(* retries and its outcome (specification SpecPackage)                     *)

ParseRetryLimit == 1
QuotaRetryLimit == 5

\* A cap of two retries on a parse failure
MayRetryParse_Twice(count) == count < ParseRetryLimit + 1

\* A parse retry with a budget of its own
MayRetryParse_OwnBudget(count) == parseRetries < ParseRetryLimit

\* if (retryCount < 1)
MayRetryParse(count) == count < ParseRetryLimit

\* ... && retryCount < 5
MayRetryQuota(count) == count < QuotaRetryLimit

\* generateMoviePackage(input) has computed keyframeTotal and stylePreset
InitPackage ==
    /\ pc = "calling"
    /\ how = "none"
    /\ doc = <<>>
    /\ text = Undefined
    /\ rawJson = <<>>
    /\ data = NoData
    /\ \E r \in PackageRequests : duration = r[1] /\ density = r[2] /\ script = r[3]
    /\ visualStyle = DefaultStyle
    /\ keyframeTotal = getRequiredKeyframeCount(duration, density)
    /\ stylePreset = ResolveStylePreset(visualStyle)
    /\ aspectRatio = "16:9"
    /\ retryCount = 0
    /\ err = NoError
    /\ pkg = NoPackage
    /\ calls = 0
    /\ parseRetries = 0
    /\ delay = NoDelay
    /\ frames = NoFrames
    /\ AppIdle
    /\ KeyIdle

\* const response = await ai.models.generateContent(...) resolves
PackageRespond(h, d, t) ==
    /\ how' = h
    /\ doc' = d
    /\ text' = t
    /\ calls' = calls + 1
    /\ pc' = "responded"
    /\ UNCHANGED <<rawJson, data, script, aspectRatio, retryCount, err, pkg, parseRetries,
                   delay>>
    /\ UNCHANGED <<lookupVars, pureVars, appVars, keyVars>>

\* The model returns an object with some metadata, seo and story
RespondFields ==
    /\ pc = "calling"
    /\ \E m \in MetadataTexts, e \in SeoTexts, st \in StoryTexts :
           LET d == JObjectOf(<<Field(MetadataKey, m), Field(SeoKey, e), Field(StoryKey, st)>>)
           IN  PackageRespond("fields", d, Str(d))

\* The model returns an object with some keyframe_plan_titles and visualPrompts
RespondPrompts ==
    /\ pc = "calling"
    /\ \E t \in TitlesTexts, p \in PromptLists \cup OddPrompts :
           LET d == JObjectOf(<<Field(TitlesKey, t), Field(VisualPromptsKey, p)>>)
           IN  PackageRespond("prompts", d, Str(d))

\* The model returns a top-level array
RespondArray ==
    /\ pc = "calling"
    /\ \E d \in PromptLists : PackageRespond("array", d, Str(d))

\* The model's document is cut off by the output token limit
RespondCutPackage ==
    /\ pc = "calling"
    /\ \E k \in 1..(Len(CutDoc) - 1) :
           PackageRespond("cut", CutDoc, Str(SubSeq(CutDoc, 1, k)))

\* await ai.models.generateContent(...) rejects
CallFails ==
    /\ pc = "calling"
    /\ \E m \in ApiErrors : err' = [message |-> m, origin |-> "api"]
    /\ calls' = calls + 1
    /\ pc' = "caught"
    /\ UNCHANGED <<script, aspectRatio, retryCount, pkg, parseRetries, delay>>
    /\ UNCHANGED <<recoverVars, lookupVars, pureVars, appVars, keyVars>>

\* The re-invocation generateMoviePackage(input, retryCount + 1), up to its
\* model call
Reinvoke ==
    /\ retryCount' = retryCount + 1
    /\ keyframeTotal' = getRequiredKeyframeCount(duration, density)
    /\ stylePreset' = ResolveStylePreset(visualStyle)
    /\ how' = "none"
    /\ doc' = <<>>
    /\ text' = Undefined
    /\ rawJson' = <<>>
    /\ data' = NoData
    /\ err' = NoError
    /\ delay' = NoDelay
    /\ pc' = "calling"
    /\ UNCHANGED <<duration, density, visualStyle, script, aspectRatio, pkg, calls>>
    /\ UNCHANGED <<pureVars, appVars, keyVars>>

\* catch (e) { if (retryCount < 1) return generateMoviePackage(input, retryCount + 1);
RetryParse ==
    /\ pc = "failed"
    /\ MayRetryParse(retryCount)
    /\ parseRetries' = parseRetries + 1
    /\ Reinvoke

\* throw new Error("JSON_STRUCTURAL_FAILURE: ..."), caught by the outer catch
ThrowStructuralFailure ==
    /\ pc = "failed"
    /\ ~MayRetryParse(retryCount)
    /\ err' = [message |-> StructuralFailureMessage, origin |-> "parse"]
    /\ pc' = "caught"
    /\ UNCHANGED <<script, aspectRatio, retryCount, pkg, calls, parseRetries, delay>>
    /\ UNCHANGED <<recoverVars, lookupVars, pureVars, appVars, keyVars>>

\* const validPrompts = ...; return { metadata: ..., ... }
NormalizeStep ==
    /\ pc = "parsed"
    /\ LET r == Normalize(data.val, script, visualStyle, aspectRatio, duration,
                          keyframeTotal, stylePreset)
       IN  /\ pc' = IF r.threw THEN "caught" ELSE "returned"
           /\ err' = IF r.threw THEN [message |-> r.message, origin |-> "normalize"] ELSE err
           /\ pkg' = r.pkg
    /\ UNCHANGED <<script, aspectRatio, retryCount, calls, parseRetries, delay>>
    /\ UNCHANGED <<recoverVars, lookupVars, pureVars, appVars, keyVars>>

\* catch (err) { if (quota && retryCount < 5) { await delayWithJitter(retryCount);
RetryQuota ==
    /\ pc = "caught"
    /\ IsQuotaError(err.message)
    /\ MayRetryQuota(retryCount)
    /\ \E j \in Jitters : delay' = delayWithJitter(retryCount, j)
    /\ pc' = "waiting"
    /\ UNCHANGED <<script, aspectRatio, retryCount, err, pkg, calls, parseRetries>>
    /\ UNCHANGED <<recoverVars, lookupVars, pureVars, appVars, keyVars>>

\* The timer fires: return generateMoviePackage(input, retryCount + 1); }
TimerFires ==
    /\ pc = "waiting"
    /\ UNCHANGED parseRetries
    /\ Reinvoke

\* return handleApiError(err, "GENERATE_PACKAGE")
Reject ==
    /\ pc = "caught"
    /\ ~(IsQuotaError(err.message) /\ MayRetryQuota(retryCount))
    /\ err' = [message |-> handleApiError(err.message, GeneratePackageTask),
               origin |-> err.origin]
    /\ pc' = "rejected"
    /\ UNCHANGED <<script, aspectRatio, retryCount, pkg, calls, parseRetries, delay>>
    /\ UNCHANGED <<recoverVars, lookupVars, pureVars, appVars, keyVars>>

\* generateImage(prompt, aspectRatio) is called; it shares no state with
\* generateMoviePackage and is modelled by the same variables, with labels
\* of its own
InitImage ==
    /\ pc = "imageCalling"
    /\ how = "none"
    /\ doc = <<>>
    /\ text = Undefined
    /\ rawJson = <<>>
    /\ data = NoData
    /\ duration = DefaultDuration
    /\ density = DefaultDensity
    /\ visualStyle = DefaultStyle
    /\ keyframeTotal = getRequiredKeyframeCount(duration, density)
    /\ stylePreset = ResolveStylePreset(visualStyle)
    /\ script = <<>>
    /\ aspectRatio = "16:9"
    /\ retryCount = 0
    /\ err = NoError
    /\ pkg = NoPackage
    /\ calls = 0
    /\ parseRetries = 0
    /\ delay = NoDelay
    /\ frames = NoFrames
    /\ AppIdle
    /\ KeyIdle

\* The messages of the errors generateImage catches from the model call
ImageErrors ==
    ApiErrors
    \cup {<<"R", "E", "S", "O", "U", "R", "C", "E", "_", "E", "X", "H", "A",
            "U", "S", "T", "E", "D">>,
          <<"Q", "U", "O", "T", "A">>,
          <<"r", "a", "t", "e", " ", "l", "i", "m", "i", "t">>,
          <<"4", "0", "3", " ", "F", "o", "r", "b", "i", "d", "d", "e", "n">>,
          <<>>}

\* if (quota && retryCount < 3)
ImageQuotaRetryLimit == 3
MayRetryImage(count) == count < ImageQuotaRetryLimit

\* if (part.inlineData) return `data:${...};base64,${...}`
ImageRespond ==
    /\ pc = "imageCalling"
    /\ calls' = calls + 1
    /\ pc' = "imageReturned"
    /\ UNCHANGED <<script, aspectRatio, retryCount, err, pkg, parseRetries, delay>>
    /\ UNCHANGED <<recoverVars, lookupVars, pureVars, appVars, keyVars>>

\* No part of the response holds inlineData:
\* throw new Error("No image data returned from Engine.")
ImageNoData ==
    /\ pc = "imageCalling"
    /\ calls' = calls + 1
    /\ err' = [message |-> NoImageDataMessage, origin |-> "image"]
    /\ pc' = "imageCaught"
    /\ UNCHANGED <<script, aspectRatio, retryCount, pkg, parseRetries, delay>>
    /\ UNCHANGED <<recoverVars, lookupVars, pureVars, appVars, keyVars>>

\* await ai.models.generateContent(...) rejects
ImageCallFails ==
    /\ pc = "imageCalling"
    /\ calls' = calls + 1
    /\ \E m \in ImageErrors : err' = [message |-> m, origin |-> "api"]
    /\ pc' = "imageCaught"
    /\ UNCHANGED <<script, aspectRatio, retryCount, pkg, parseRetries, delay>>
    /\ UNCHANGED <<recoverVars, lookupVars, pureVars, appVars, keyVars>>

\* catch (err) { if (quota && retryCount < 3) { await delayWithJitter(retryCount);
ImageRetryQuota ==
    /\ pc = "imageCaught"
    /\ IsQuotaError(err.message)
    /\ MayRetryImage(retryCount)
    /\ \E j \in Jitters : delay' = delayWithJitter(retryCount, j)
    /\ pc' = "imageWaiting"
    /\ UNCHANGED <<script, aspectRatio, retryCount, err, pkg, calls, parseRetries>>
    /\ UNCHANGED <<recoverVars, lookupVars, pureVars, appVars, keyVars>>

\* The timer fires: return generateImage(prompt, aspectRatio, model, refImage,
\* retryCount + 1); }
ImageTimerFires ==
    /\ pc = "imageWaiting"
    /\ retryCount' = retryCount + 1
    /\ err' = NoError
    /\ delay' = NoDelay
    /\ pc' = "imageCalling"
    /\ UNCHANGED <<script, aspectRatio, pkg, calls, parseRetries>>
    /\ UNCHANGED <<recoverVars, lookupVars, pureVars, appVars, keyVars>>

\* return handleApiError(err, "GENERATE_IMAGE")
ImageReject ==
    /\ pc = "imageCaught"
    /\ ~(IsQuotaError(err.message) /\ MayRetryImage(retryCount))
    /\ err' = [message |-> handleApiError(err.message, GenerateImageTask),
               origin |-> err.origin]
    /\ pc' = "imageRejected"
    /\ UNCHANGED <<script, aspectRatio, retryCount, pkg, calls, parseRetries, delay>>
    /\ UNCHANGED <<recoverVars, lookupVars, pureVars, appVars, keyVars>>

NextPackage ==
    \/ RespondFields
    \/ RespondPrompts
    \/ RespondArray
    \/ RespondCutPackage
    \/ CallFails
    \/ Clean
    \/ Parse
    \/ RetryParse
    \/ ThrowStructuralFailure
    \/ NormalizeStep
    \/ RetryQuota
    \/ TimerFires
    \/ Reject

\* One generateMoviePackage request, from its call to its settlement
SpecPackage == InitPackage /\ [][NextPackage]_vars

NextImage ==
    \/ ImageRespond
    \/ ImageNoData
    \/ ImageCallFails
    \/ ImageRetryQuota
    \/ ImageTimerFires
    \/ ImageReject

NextRequests == NextPackage \/ NextImage

\* A request of either kind, from its call to its settlement
SpecRequests == (InitPackage \/ InitImage) /\ [][NextRequests]_vars

PcValues ==
    {"calling", "responded", "cleaned", "parsed", "failed", "caught", "waiting",
     "returned", "rejected",
     "imageCalling", "imageCaught", "imageWaiting", "imageReturned", "imageRejected"}

\* The labels of generateMoviePackage
PackagePcValues ==
    {"calling", "responded", "cleaned", "parsed", "failed", "caught", "waiting",
     "returned", "rejected"}

\* The labels of a settled request
Settled == {"returned", "rejected", "imageReturned", "imageRejected"}

\* The request moves on from where it is: the awaited call settles, the
\* timer fires, the synchronous statements run to their end
Advance ==
    /\ pc \notin Settled
    /\ pc' \in PcValues
    /\ pc' # pc

\* A request that has not ended moves on in the end: no await of
\* generateMoviePackage waits for ever (generateContent settles, the timer of
\* delayWithJitter fires)
FairSpecPackage == SpecPackage /\ WF_pc(Advance)

FairSpecRequests == SpecRequests /\ WF_pc(Advance)

-----------------------------------------------------------------------------
(* Invocations of cleanJsonString and getRequiredKeyframeCount in flight   *)
(* together (specification SpecPure).  frames[n] is the activation record  *)
(* of invocation slot n: the function called, its argument, its locals and *)
(* its return value.  The steps of the invocations interleave freely, and  *)
(* a slot that has returned is called again.                               *)

Invocations == {1, 2}

\* The texts and label pairs the invocations are called with
PureTexts ==
    {Undefined,
     Str(<<"x">>),
     Str(<<"{", "\"", "a", "\"", ":", "1", "}", "x">>),
     Str(<<"[", "1", ",", "{", "\"", "a">>)}

PureLabels ==
    {<<DefaultDuration, DefaultDensity>>,
     <<<<"3", "0", " ">> \o Seconds, <<"D", "E", "T", "A", "I", "L", "E", "D">>>>}

\* A slot no invocation has used yet
IdleFrame ==
    [op |-> "none", phase |-> "idle", text |-> Undefined, labels |-> <<<<>>, <<>>>>,
     st |-> ScanInit(<<>>), i |-> 0, out |-> <<>>, count |-> JsUndefined]

\* The locals the scan starts with, whatever the slot held before
\* (an override that keeps the counters the slot held)
FreshLocals_Kept(before, cleaned) ==
    [before EXCEPT !.cleaned = cleaned, !.finished = FALSE]

\* let braceCount = 0; let bracketCount = 0; let inString = false; ...
FreshLocals(before, cleaned) == ScanInit(cleaned)

InitPure ==
    /\ pc = "idle"
    /\ how = "none"
    /\ doc = <<>>
    /\ text = Undefined
    /\ rawJson = <<>>
    /\ data = NoData
    /\ duration = DefaultDuration
    /\ density = DefaultDensity
    /\ visualStyle = DefaultStyle
    /\ keyframeTotal = getRequiredKeyframeCount(duration, density)
    /\ stylePreset = ResolveStylePreset(visualStyle)
    /\ script = <<>>
    /\ aspectRatio = "16:9"
    /\ retryCount = 0
    /\ err = NoError
    /\ pkg = NoPackage
    /\ calls = 0
    /\ parseRetries = 0
    /\ delay = NoDelay
    /\ frames = [n \in Invocations |-> IdleFrame]
    /\ AppIdle
    /\ KeyIdle

\* The invocation of slot n takes a step that leaves its record as f
FrameStep(n, f) ==
    /\ frames' = [frames EXCEPT ![n] = f]
    /\ UNCHANGED <<pc, recoverVars, lookupVars, packageVars, appVars, keyVars>>

\* cleanJsonString(t) is called
CallClean(n) ==
    /\ frames[n].phase = "idle"
    /\ \E t \in PureTexts :
           FrameStep(n, [frames[n] EXCEPT !.op = "clean", !.text = t, !.phase = "strip"])

\* getRequiredKeyframeCount(duration, density) is called
CallCount(n) ==
    /\ frames[n].phase = "idle"
    /\ \E l \in PureLabels :
           FrameStep(n, [frames[n] EXCEPT !.op = "count", !.labels = l, !.phase = "lookup"])

\* if (!text) return "{}"; ... if (start === -1) return "{}";
\* cleaned = cleaned.substring(start); let braceCount = 0; ...
StripStep(n) ==
    /\ frames[n].phase = "strip"
    /\ LET t == frames[n].text
           stripped == Trim(StripFenceClose(StripFenceOpen(Trim(t.chars))))
           start == RootStart(stripped)
       IN  IF ~t.defined \/ t.chars = <<>> \/ start = -1
           THEN FrameStep(n, [frames[n] EXCEPT !.out = EmptyObjectText, !.phase = "done"])
           ELSE FrameStep(n, [frames[n] EXCEPT
                                  !.st = FreshLocals(frames[n].st,
                                             Substring(stripped, start, Len(stripped))),
                                  !.i = 0, !.phase = "scan"])

\* One iteration of for (let i = 0; i < cleaned.length; i++)
ScanIteration(n) ==
    /\ frames[n].phase = "scan"
    /\ ~frames[n].st.finished
    /\ ~BrokeOff(frames[n].st)
    /\ frames[n].i < Len(frames[n].st.cleaned)
    /\ FrameStep(n, [frames[n] EXCEPT !.st = ScanStep(frames[n].st, frames[n].i),
                                      !.i = frames[n].i + 1])

\* The loop is left: the truncation branch and the final replacements
FinishClean(n) ==
    /\ frames[n].phase = "scan"
    /\ \/ frames[n].st.finished
       \/ BrokeOff(frames[n].st)
       \/ frames[n].i >= Len(frames[n].st.cleaned)
    /\ FrameStep(n, [frames[n] EXCEPT
                         !.out = PostProcess(RepairTruncation(frames[n].st)),
                         !.phase = "done"])

\* The body of getRequiredKeyframeCount
CountStep(n) ==
    /\ frames[n].phase = "lookup"
    /\ FrameStep(n, [frames[n] EXCEPT
                         !.count = getRequiredKeyframeCount(frames[n].labels[1],
                                                            frames[n].labels[2]),
                         !.phase = "done"])

\* The caller has the return value; the slot is free for another call
ReturnFrame(n) ==
    /\ frames[n].phase = "done"
    /\ FrameStep(n, [frames[n] EXCEPT !.phase = "idle"])

NextPure ==
    \E n \in Invocations :
        \/ CallClean(n)
        \/ CallCount(n)
        \/ StripStep(n)
        \/ ScanIteration(n)
        \/ FinishClean(n)
        \/ CountStep(n)
        \/ ReturnFrame(n)

SpecPure == InitPure /\ [][NextPure]_vars

\* The invocation of slot n is one of op and has its return value
HasReturned(n, op) == frames[n].phase = "done" /\ frames[n].op = op

\* C16: the value an invocation of cleanJsonString or of
\* getRequiredKeyframeCount returns is a function of its argument alone,
\* whatever invocations ran in its slot before and whatever steps of another
\* invocation ran between its own; so two invocations with equal arguments
\* return equal values.
C16_InvocationsPure ==
    /\ \A n \in Invocations :
           /\ HasReturned(n, "clean") => frames[n].out = cleanJsonString(frames[n].text)
           /\ HasReturned(n, "count") =>
                  frames[n].count = getRequiredKeyframeCount(frames[n].labels[1],
                                                             frames[n].labels[2])
    /\ \A m, n \in Invocations :
           /\ HasReturned(m, "clean") /\ HasReturned(n, "clean") /\ frames[m].text = frames[n].text
                  => frames[m].out = frames[n].out
           /\ HasReturned(m, "count") /\ HasReturned(n, "count") /\ frames[m].labels = frames[n].labels
                  => frames[m].count = frames[n].count

\* Two invocations of cleanJsonString with the same text have returned, in
\* slots that earlier invocations left their counters and results in
C16_Witness ==
    /\ HasReturned(1, "clean")
    /\ HasReturned(2, "clean")
    /\ frames[1].text = frames[2].text
    /\ frames[1].st.finished
    /\ frames[1].count # JsUndefined
    /\ frames[2].count # JsUndefined

-----------------------------------------------------------------------------
(* The root App and the user gate (specification SpecGate): the auth state *)
(* changes Firebase reports, the invocations of the onAuthChange callback  *)
(* (each suspended at await ensureUserProfile until the reads and writes   *)
(* of that call settle), the registration of LoginScreen, the snapshots    *)
(* the subscriptions deliver, and the administrator's status updates.      *)
(* tasks[i] is invocation i: its kind ("auth" or "register"), the uid and  *)
(* email it was called with and the await it stands at ("getDoc",          *)
(* "setDoc", "updateDoc", "settled"); an invocation that has returned is  *)
(* Returned.  A subscription carries the number of the invocation that     *)
(* made it.                                                                *)

MaxAuthEvents == 2   \* auth state changes reported to the App

\* The engine, idle, while the gate runs
EngineIdle ==
    /\ pc = "app"
    /\ how = "none"
    /\ doc = <<>>
    /\ text = Undefined
    /\ rawJson = <<>>
    /\ data = NoData
    /\ duration = DefaultDuration
    /\ density = DefaultDensity
    /\ visualStyle = DefaultStyle
    /\ keyframeTotal = getRequiredKeyframeCount(duration, density)
    /\ stylePreset = ResolveStylePreset(visualStyle)
    /\ script = <<>>
    /\ aspectRatio = "16:9"
    /\ retryCount = 0
    /\ err = NoError
    /\ pkg = NoPackage
    /\ calls = 0
    /\ parseRetries = 0
    /\ delay = NoDelay
    /\ frames = NoFrames

engineVars == <<pc, recoverVars, lookupVars, packageVars, pureVars>>

\* The documents of an account when the App mounts: none for a new account,
\* a document without a status field, an approved profile under an earlier
\* email
StoredProfiles(uid) ==
    {NoProfile, Profile(uid, EmailOf(uid), ""), Profile(uid, "old@example.com", "approved")}

InitGate ==
    /\ EngineIdle
    /\ KeyIdle
    /\ auth = ""
    /\ app = AppMounted
    /\ listeners = {}
    /\ tasks = <<>>
    /\ \E p \in StoredProfiles("alice") :
           users = [u \in Uids |-> IF u = "alice" THEN p ELSE NoProfile]
    /\ written = [u \in Uids |-> "none"]

AuthEvents == Cardinality({i \in 1..Len(tasks) : tasks[i].kind = "auth"})

Task(kind, uid, phase) ==
    [kind |-> kind, uid |-> uid, email |-> IF uid = "" THEN "" ELSE EmailOf(uid),
     phase |-> phase]

\* An invocation that has run to its end
ReturnedTask(kind) == Task(kind, "", "done")

\* if (unsubscribeProfile) { unsubscribeProfile(); unsubscribeProfile = null; }
Unsubscribed ==
    {l \in listeners : l.id # app.unsubscribeProfile}

\* onAuthChange reports the user u ("" for null) and the callback runs up to
\* its first await: ensureUserProfile is called and suspends at getDoc
AuthChange(u) ==
    /\ AuthEvents < MaxAuthEvents
    /\ u # auth \/ AuthEvents = 0
    /\ auth' = u
    /\ listeners' = Unsubscribed
    /\ IF u # ""
       THEN /\ app' = [app EXCEPT !.unsubscribeProfile = NoListener,
                                  !.user = AuthUser(u),
                                  !.profileLoading = TRUE]
            /\ tasks' = Append(tasks, Task("auth", u, "getDoc"))
       ELSE /\ app' = [app EXCEPT !.unsubscribeProfile = NoListener,
                                  !.user = NoUser,
                                  !.userData = NoProfile,
                                  !.isAdminView = FALSE,
                                  !.loading = FALSE,
                                  !.profileLoading = FALSE]
            /\ tasks' = Append(tasks, ReturnedTask("auth"))
    /\ UNCHANGED <<users, written>>
    /\ UNCHANGED <<engineVars, keyVars>>

\* handleAuth in mode "register": registerWithEmailPassword has resolved (the
\* new account is signed in, its callback is the invocation made last and has
\* not returned) and ensureUserProfile(cred.user.uid, eTrim) is called.  The
\* account is new: its document is missing or the one that callback has just
\* written.  One registration is followed.
Register(u) ==
    /\ auth = u
    /\ \A i \in 1..Len(tasks) : tasks[i].kind # "register"
    /\ tasks[Len(tasks)].uid = u
    /\ users[u] \in {NoProfile, Profile(u, EmailOf(u), "pending")}
    /\ written[u] = "none"
    /\ tasks' = Append(tasks, Task("register", u, "getDoc"))
    /\ UNCHANGED <<auth, app, listeners, users, written>>
    /\ UNCHANGED <<engineVars, keyVars>>

\* Invocation i moves on to the given await
Await(i, phase) ==
    /\ tasks' = [tasks EXCEPT ![i].phase = phase]
    /\ UNCHANGED <<auth, app, listeners, written>>
    /\ UNCHANGED <<engineVars, keyVars>>

\* const snap = await getDoc(ref) resolves: the profile is written if the
\* document is missing, the email if it differs
GetDocResolves(i) ==
    /\ tasks[i].phase = "getDoc"
    /\ LET snap == users[tasks[i].uid]
       IN  Await(i, IF ~snap.exists THEN "setDoc"
                    ELSE IF tasks[i].email # "" /\ snap.email # tasks[i].email
                         THEN "updateDoc"
                    ELSE "settled")
    /\ UNCHANGED users

\* await getDoc(ref) rejects, and ensureUserProfile with it
GetDocRejects(i) ==
    /\ tasks[i].phase = "getDoc"
    /\ Await(i, "settled")
    /\ UNCHANGED users

\* The document after setDoc(ref, profile, { merge: true }) with the profile
\* { uid, email, status: "pending", createdAt, updatedAt }
setDocMerge(before, uid, email) == Profile(uid, email, "pending")

\* await setDoc(ref, profile, { merge: true }) resolves
SetDocResolves(i) ==
    /\ tasks[i].phase = "setDoc"
    /\ users' = [users EXCEPT ![tasks[i].uid] =
                     setDocMerge(@, tasks[i].uid, tasks[i].email)]
    /\ Await(i, "settled")

\* await updateDoc(ref, { email, updatedAt }) resolves
UpdateDocResolves(i) ==
    /\ tasks[i].phase = "updateDoc"
    /\ users' = [users EXCEPT ![tasks[i].uid].email = tasks[i].email]
    /\ Await(i, "settled")

\* The callback resumes after the await:
\* unsubscribeProfile = listenToUserProfile(authUser.uid, ...)
Listen(i) ==
    /\ tasks[i].kind = "auth"
    /\ tasks[i].phase = "settled"
    /\ listeners' = listeners \cup {[id |-> i, uid |-> tasks[i].uid]}
    /\ app' = [app EXCEPT !.unsubscribeProfile = i]
    /\ tasks' = [tasks EXCEPT ![i] = ReturnedTask("auth")]
    /\ UNCHANGED <<auth, users, written>>
    /\ UNCHANGED <<engineVars, keyVars>>

\* handleAuth resumes after the await: openWhatsApp(...), setLoading(false)
RegisterDone(i) ==
    /\ tasks[i].kind = "register"
    /\ tasks[i].phase = "settled"
    /\ tasks' = [tasks EXCEPT ![i] = ReturnedTask("register")]
    /\ UNCHANGED <<auth, app, listeners, users, written>>
    /\ UNCHANGED <<engineVars, keyVars>>

\* onSnapshot calls back with the document of the subscription:
\* setUserData(profile); setProfileLoading(false); setLoading(false)
Snapshot(l) ==
    /\ app' = [app EXCEPT !.userData = users[l.uid],
                          !.profileLoading = FALSE,
                          !.loading = FALSE]
    /\ app' # app
    /\ UNCHANGED <<auth, listeners, tasks, users, written>>
    /\ UNCHANGED <<engineVars, keyVars>>

\* The buttons of AdminPage, and the accounts the administrator decides on
StatusButtons == {"approved", "blocked"}
Applicants == Uids \ {"admin"}

\* updateUserStatus(uid, status): await updateDoc(ref, { status, updatedAt })
updateUserStatus(uid, status) ==
    /\ users[uid].exists
    /\ users[uid].status # status
    /\ users' = [users EXCEPT ![uid].status = status]
    /\ written' = [written EXCEPT ![uid] = status]
    /\ UNCHANGED <<auth, app, listeners, tasks>>
    /\ UNCHANGED <<engineVars, keyVars>>

\* A gate that lets every signed-in user with a profile through
Render_AnyProfile ==
    IF app.loading \/ (app.user # NoUser /\ app.profileLoading) THEN "Loader"
    ELSE IF app.authError = "UNAUTHORIZED_DOMAIN" THEN "GateDenied"
    ELSE IF app.user = NoUser THEN "LoginScreen"
    ELSE IF app.isAdminView /\ app.user.email = ADMIN_EMAIL THEN "AdminPage"
    ELSE IF ~(app.userData.exists \/ app.user.email = ADMIN_EMAIL)
         THEN "ApprovalModal"
    ELSE "MainProductionApp"

\* What App renders
Render ==
    IF app.loading \/ (app.user # NoUser /\ app.profileLoading) THEN "Loader"
    ELSE IF app.authError = "UNAUTHORIZED_DOMAIN" THEN "GateDenied"
    ELSE IF app.user = NoUser THEN "LoginScreen"
    ELSE IF app.isAdminView /\ app.user.email = ADMIN_EMAIL THEN "AdminPage"
    ELSE IF ~(app.userData.status = "approved" \/ app.user.email = ADMIN_EMAIL)
         THEN "ApprovalModal"
    ELSE "MainProductionApp"

\* onClick={() => setIsAdminView(true)} of the button Admin Controls, and
\* onClick={() => setIsAdminView(false)} of Back to Production
ToggleAdminView ==
    /\ \/ Render = "MainProductionApp" /\ app.user.email = ADMIN_EMAIL
       \/ Render = "AdminPage"
    /\ app' = [app EXCEPT !.isAdminView = ~@]
    /\ UNCHANGED <<auth, listeners, tasks, users, written>>
    /\ UNCHANGED <<engineVars, keyVars>>

NextGate ==
    \/ \E u \in Uids \cup {""} : AuthChange(u)
    \/ \E u \in Uids : Register(u)
    \/ \E i \in 1..Len(tasks) : GetDocResolves(i)
    \/ \E i \in 1..Len(tasks) : GetDocRejects(i)
    \/ \E i \in 1..Len(tasks) : SetDocResolves(i)
    \/ \E i \in 1..Len(tasks) : UpdateDocResolves(i)
    \/ \E i \in 1..Len(tasks) : Listen(i)
    \/ \E i \in 1..Len(tasks) : RegisterDone(i)
    \/ \E l \in listeners : Snapshot(l)
    \/ \E u \in Applicants, s \in StatusButtons : updateUserStatus(u, s)
    \/ ToggleAdminView

SpecGate == InitGate /\ [][NextGate]_vars

-----------------------------------------------------------------------------
(* The main app and its key (specification SpecKey): the key status checks *)
(* of MainApp, the window events PRISMA_KEY_UPDATE and                     *)
(* PRISMA_API_KEY_INVALID, the submission of the form and the outcome of   *)
(* the generation request it starts.  pc is "idle", "generating" while the *)
(* model call of generateMoviePackage is awaited, or "caught".             *)

KeyLengthLimit == 10   \* currentKey.length > 10

\* !!currentKey && currentKey.length > 10
KeyLooksReady(key) == key.length > 0 /\ key.length > KeyLengthLimit

InitKey ==
    /\ pc = "idle"
    /\ how = "none"
    /\ doc = <<>>
    /\ text = Undefined
    /\ rawJson = <<>>
    /\ data = NoData
    /\ duration = DefaultDuration
    /\ density = DefaultDensity
    /\ visualStyle = DefaultStyle
    /\ keyframeTotal = getRequiredKeyframeCount(duration, density)
    /\ stylePreset = ResolveStylePreset(visualStyle)
    /\ script \in {<<>>, <<" ">>, ShortScript, LongScript}
    /\ aspectRatio = "16:9"
    /\ retryCount = 0
    /\ err = NoError
    /\ pkg = NoPackage
    /\ calls = 0
    /\ parseRetries = 0
    /\ delay = NoDelay
    /\ frames = NoFrames
    /\ AppIdle
    /\ apiKey \in {NoKey, ShortKey, RevokedKey, GoodKey}
    /\ keyApp = MainAppMounted
    /\ lastEvent = "none"

keyMachineRest == <<recoverVars, lookupVars, script, aspectRatio, retryCount, pkg,
                    calls, parseRetries, delay, pureVars, appVars>>

\* checkKeyStatus(), called by the effect on mount and by every tick of
\* setInterval(checkKeyStatus, 2000)
checkKeyStatus ==
    /\ keyApp' = [keyApp EXCEPT !.isKeyReady = KeyLooksReady(apiKey)]
    /\ keyApp' # keyApp
    /\ UNCHANGED <<pc, err, apiKey, lastEvent, keyMachineRest>>

\* handleKeyUpdate(newKey) of Header with a key the manager has validated, or
\* with null: process.env.API_KEY is set, PRISMA_KEY_UPDATE is dispatched
\* (MainApp's handleKeyUpdate runs checkKeyStatus) and the manager is closed
KeyUpdate(newKey) ==
    /\ apiKey' = newKey
    /\ lastEvent' = "PRISMA_KEY_UPDATE"
    /\ keyApp' = [keyApp EXCEPT !.isKeyReady = KeyLooksReady(newKey),
                                !.isKeyManagerOpen = FALSE]
    /\ UNCHANGED <<pc, err, keyMachineRest>>

\* The service stops accepting the key (it is revoked or expires)
KeyRevoked ==
    /\ apiKey = GoodKey
    /\ apiKey' = RevokedKey
    /\ UNCHANGED <<pc, err, keyApp, lastEvent, keyMachineRest>>

\* onToggleKeyManager={() => setIsKeyManagerOpen(!isKeyManagerOpen)}
ToggleKeyManager ==
    /\ keyApp' = [keyApp EXCEPT !.isKeyManagerOpen = ~@]
    /\ UNCHANGED <<pc, err, apiKey, lastEvent, keyMachineRest>>

\* s.trim() is not empty
NonBlank(s) == \E i \in 1..Len(s) : s[i] \notin WhiteSpace

\* handleSubmit of InputForm: if (isKeyReady && script.trim()) onSubmit(...);
\* handleProductionExecute sets loading and awaits generateMoviePackage
SubmitForm ==
    /\ pc = "idle"
    /\ ~keyApp.productionData
    /\ keyApp.isKeyReady
    /\ NonBlank(script)
    /\ pc' = "generating"
    /\ err' = NoError
    /\ keyApp' = [keyApp EXCEPT !.loading = TRUE]
    /\ UNCHANGED <<apiKey, lastEvent, keyMachineRest>>

\* generateMoviePackage resolves: setProductionData(data); setLoading(false)
GenerationResolves ==
    /\ pc = "generating"
    /\ apiKey.valid
    /\ pc' = "idle"
    /\ keyApp' = [keyApp EXCEPT !.loading = FALSE, !.productionData = TRUE]
    /\ UNCHANGED <<err, apiKey, lastEvent, keyMachineRest>>

\* await generateMoviePackage(input): the model call is rejected, with the
\* invalid-key body when the service does not accept the key and for another
\* reason (quota, network) when it does
ModelCallRejected ==
    /\ pc = "generating"
    /\ \E m \in ApiErrors :
           /\ (m = KeyNotValidBody) <=> ~apiKey.valid
           /\ err' = [message |-> m, origin |-> "api"]
    /\ pc' = "caught"
    /\ UNCHANGED <<apiKey, keyApp, lastEvent, keyMachineRest>>

\* handleApiError(err, "GENERATE_PACKAGE") throws; on the invalid-credential
\* class it first dispatches PRISMA_API_KEY_INVALID, and handleKeyInvalid
\* runs: setIsKeyReady(false); setIsKeyManagerOpen(true).
\* handleProductionExecute alerts and sets loading to false.
GenerationRejected ==
    /\ pc = "caught"
    /\ err' = [message |-> handleApiError(err.message, GeneratePackageTask),
               origin |-> err.origin]
    /\ IF err'.message = InvalidKeyMessage
       THEN /\ lastEvent' = "PRISMA_API_KEY_INVALID"
            /\ keyApp' = [keyApp EXCEPT !.isKeyReady = FALSE,
                                        !.isKeyManagerOpen = TRUE,
                                        !.loading = FALSE]
       ELSE /\ lastEvent' = lastEvent
            /\ keyApp' = [keyApp EXCEPT !.loading = FALSE]
    /\ pc' = "idle"
    /\ UNCHANGED <<apiKey, keyMachineRest>>

NextKey ==
    \/ checkKeyStatus
    \/ \E k \in {GoodKey, NoKey} : KeyUpdate(k)
    \/ KeyRevoked
    \/ ToggleKeyManager
    \/ SubmitForm
    \/ GenerationResolves
    \/ ModelCallRejected
    \/ GenerationRejected

SpecKey == InitKey /\ [][NextKey]_vars

-----------------------------------------------------------------------------
(* Properties of a generation request (specifications SpecPackage and      *)
(* FairSpecPackage)                                                        *)

\* The request has ended with a package
Returned == pc = "returned"

\* The request has ended with a rejection
Rejected == pc = "rejected"

HasType(val, type) == val.t = type

\* An seo object with its seven fields, each of its documented type
WellShapedSeo(val) ==
    /\ HasType(val, "obj")
    /\ \A n \in 1..Len(SeoFields) :
           HasType(Member(val, SeoFields[n]), IF n = 2 THEN "arr" ELSE "str")

\* The first 30 characters of the script
TopicDefault(script_) == SubSeq(script_, 1, IF Len(script_) < 30 THEN Len(script_) ELSE 30)

\* C11: the package a request returns has every field present and of its
\* documented type, and a field the parsed value leaves absent, null or of
\* the wrong shape has its documented default: topic the first 30 characters
\* of the script, mood "Cinematic", seo the default object (bestTitle
\* "Untitled", altTitles empty), story the script, titles and visualPrompts
\* sequences.
C11_EveryFieldFilled ==
    Returned =>
        /\ HasType(pkg.metadata.topic, "str")
        /\ HasType(pkg.metadata.mood, "str")
        /\ WellShapedSeo(pkg.seo)
        /\ HasType(pkg.story, "str")
        /\ HasType(pkg.titles, "arr")
        /\ HasType(pkg.visualPrompts, "arr")
        /\ HasType(pkg.audioMap, "arr")
        /\ ~HasType(OptionalMember(Member(data.val, MetadataKey), TopicKey), "str")
               => pkg.metadata.topic = JStr(TopicDefault(script))
        /\ ~HasType(OptionalMember(Member(data.val, MetadataKey), MoodKey), "str")
               => pkg.metadata.mood = JStr(Cinematic)
        /\ ~WellShapedSeo(Member(data.val, SeoKey)) => pkg.seo = DefaultSeo
        /\ ~HasType(Member(data.val, StoryKey), "str") => pkg.story = JStr(script)
        /\ ~HasType(Member(data.val, VisualPromptsKey), "arr") => pkg.visualPrompts = JArr(<<>>)

\* The entries of data.visualPrompts, none when it is not an array
GivenPrompts ==
    LET given == Member(data.val, VisualPromptsKey)
    IN  IF HasType(given, "arr") THEN given.v ELSE <<>>

C13_NormalizeNeverThrows == err.origin # "normalize"

\* C14: a request retries at most once because of a parse failure; a parse
\* failure after that retry throws the structural-failure error, which ends
\* the request; and every request ends, with a package or a rejection.
C14_ParseRetryCapped ==
    /\ [](parseRetries <= 1)
    /\ [][pc = "failed" /\ parseRetries >= 1
             => pc' = "caught" /\ err' = [message |-> StructuralFailureMessage,
                                         origin |-> "parse"]]_vars
    /\ [][pc = "caught" /\ err.origin = "parse" => Rejected' /\ calls' = calls]_vars
    /\ <>(Returned \/ Rejected)

\* A request that retried after a parse failure, failed to parse again and
\* was rejected for it
C14_Witness == Rejected /\ err.origin = "parse" /\ parseRetries = 1 /\ calls >= 2

\* The request was rejected for a text that did not parse after the repair
\* and the retry
ResidualParseFailure == Rejected /\ err.origin = "parse"

StructuralFailureToken ==
    <<"J", "S", "O", "N", "_", "S", "T", "R", "U", "C", "T", "U", "R", "A",
      "L", "_", "F", "A", "I", "L", "U", "R", "E">>

ShortenGuidance ==
    <<"P", "l", "e", "a", "s", "e", " ", "s", "h", "o", "r", "t", "e", "n",
      " ", "s", "c", "r", "i", "p", "t", " ", "o", "r", " ", "r", "e", "d",
      "u", "c", "e", " ", "d", "e", "n", "s", "i", "t", "y", ".">>

EngineFailureText ==
    <<"E", "n", "g", "i", "n", "e", " ", "F", "a", "i", "l", "u", "r", "e",
      " ", "[", "G", "E", "N", "E", "R", "A", "T", "E", "_", "P", "A", "C",
      "K", "A", "G", "E", "]", ":", " ">>

C23_ReparseWithBrace ==
    [][pc = "failed" =>
          /\ calls' = calls
          /\ rawJson' = rawJson
          /\ IF JsonParse(Append(rawJson, "}")).ok
             THEN pc' = "parsed" /\ data' = JsonParse(Append(rawJson, "}"))
             ELSE pc' = "caught" /\ err'.origin = "parse"]_vars

\* The delays delayWithJitter may wait before the retry of attempt number n
BackoffWindow(n) ==
    (BaseDelayMs * 2 ^ n) .. (BaseDelayMs * 2 ^ n + JitterLimitMs - 1)

\* C24: a request waits for a retry only on an error whose message holds 429,
\* QUOTA or RESOURCE_EXHAUSTED and only while retryCount < 5
\* (generateMoviePackage) or retryCount < 3 (generateImage); the wait is
\* 2000 * 2^retryCount ms plus under 1000 ms; the re-invocation that follows
\* carries retryCount + 1; with the budget spent the error is surfaced; and
\* every request settles, after at most 6 (4) model calls.
C24_QuotaRetryBacksOff ==
    /\ [][pc' = "waiting" /\ pc # "waiting" =>
              /\ pc = "caught"
              /\ IsQuotaError(err.message)
              /\ retryCount < 5
              /\ delay' \in BackoffWindow(retryCount)]_vars
    /\ [][pc' = "imageWaiting" /\ pc # "imageWaiting" =>
              /\ pc = "imageCaught"
              /\ IsQuotaError(err.message)
              /\ retryCount < 3
              /\ delay' \in BackoffWindow(retryCount)]_vars
    /\ [][pc = "waiting" => pc' = "calling" /\ retryCount' = retryCount + 1]_vars
    /\ [][pc = "imageWaiting" =>
              pc' = "imageCalling" /\ retryCount' = retryCount + 1]_vars
    /\ [][retryCount' # retryCount => pc \in {"waiting", "imageWaiting", "failed"}]_vars
    /\ [][pc = "caught" /\ retryCount >= 5 => pc' = "rejected"]_vars
    /\ [][pc = "imageCaught" /\ retryCount >= 3 => pc' = "imageRejected"]_vars
    /\ [](pc \in {"calling", "returned", "rejected"} => calls <= 6)
    /\ [](pc \in {"imageCalling", "imageReturned", "imageRejected"} => calls <= 4)
    /\ <>(pc \in Settled)

\* A request whose every model call was rate-limited: five waits, the last of
\* 32000 ms and more, six calls, and the quota error surfaced
C24_Witness ==
    /\ pc = "rejected"
    /\ retryCount = 5
    /\ calls = 6
    /\ parseRetries = 0
    /\ err.message = QuotaExhaustedMessage

\* The tokens of the two classes handleApiError looks for
RateLimitTokens ==
    {<<"4", "2", "9">>, <<"q", "u", "o", "t", "a">>, <<"l", "i", "m", "i", "t">>,
     <<"r", "e", "s", "o", "u", "r", "c", "e", "_", "e", "x", "h", "a", "u",
       "s", "t", "e", "d">>}
CredentialTokens ==
    {<<"4", "0", "1">>, <<"4", "0", "3">>,
     <<"a", "p", "i", " ", "k", "e", "y", " ", "n", "o", "t", " ", "v", "a",
       "l", "i", "d">>,
     <<"i", "n", "v", "a", "l", "i", "d", " ", "a", "p", "i", " ", "k", "e",
       "y">>}
Mentions(m, tokens) == \E t \in tokens : Includes(m, t)

EngineFailureOpening ==
    <<"E", "n", "g", "i", "n", "e", " ", "F", "a", "i", "l", "u", "r", "e",
      " ", "[">>

\* m is a generic engine failure message
IsEngineFailure(m) ==
    /\ Len(m) > Len(EngineFailureOpening)
    /\ SubSeq(m, 1, Len(EngineFailureOpening)) = EngineFailureOpening
    /\ m \notin {QuotaExhaustedMessage, InvalidKeyMessage}

\* C25: the catch that hands its error to handleApiError rejects the request,
\* and with exactly the error of the class of the caught message: the
\* rate-limited error if it mentions 429, quota, limit or resource_exhausted
\* (in any case of letters), the invalid-credential error if it mentions
\* 401, 403, "api key not valid" or "invalid api key", one of the two if it
\* mentions tokens of both, and the generic engine failure if it mentions
\* none; a rejected request always carries one of the three.
C25_ErrorsClassified ==
    /\ [][(pc \in {"caught", "imageCaught"} /\ pc' \notin {"waiting", "imageWaiting"}) =>
              (LET m == LoweredMessage(err.message)
               IN /\ pc' = IF pc = "caught" THEN "rejected" ELSE "imageRejected"
                  /\ err'.origin = err.origin
                  /\ (Mentions(m, RateLimitTokens) /\ ~Mentions(m, CredentialTokens))
                         => err'.message = QuotaExhaustedMessage
                  /\ (~Mentions(m, RateLimitTokens) /\ Mentions(m, CredentialTokens))
                         => err'.message = InvalidKeyMessage
                  /\ (Mentions(m, RateLimitTokens) /\ Mentions(m, CredentialTokens))
                         => err'.message \in {QuotaExhaustedMessage, InvalidKeyMessage}
                  /\ (~Mentions(m, RateLimitTokens) /\ ~Mentions(m, CredentialTokens))
                         => IsEngineFailure(err'.message))]_vars
    /\ [](pc \in {"rejected", "imageRejected"} =>
              \/ err.message = QuotaExhaustedMessage
              \/ err.message = InvalidKeyMessage
              \/ IsEngineFailure(err.message))

\* A model call rejected with a JSON body whose error.message says the key is
\* not valid: the request is rejected with the invalid-credential error
C25_Witness ==
    /\ pc = "rejected"
    /\ err.origin = "api"
    /\ err.message = InvalidKeyMessage
    /\ calls = 1

\* C26: the retries after a parse failure and after a quota error count on
\* the one retryCount: every model call but the first follows a re-invocation,
\* so a generateMoviePackage request makes at most 6 model calls, and a parse
\* failure of an invocation with retryCount >= 1 throws the structural
\* failure error, with no further model call.
C26_SharedRetryBudget ==
    /\ [](pc \in PackagePcValues => calls <= retryCount + 1 /\ retryCount <= 5 /\ calls <= 6)
    /\ [][(pc = "failed" /\ retryCount >= 1) =>
              /\ pc' = "caught"
              /\ err' = [message |-> StructuralFailureMessage, origin |-> "parse"]
              /\ calls' = calls
              /\ retryCount' = retryCount]_vars
    /\ [][(pc = "caught" /\ err.origin = "parse") =>
              pc' = "rejected" /\ calls' = calls]_vars

\* A request whose first call was rate-limited and whose second response
\* does not parse: rejected after two calls, with no parse retry
C26_Witness ==
    /\ pc = "rejected"
    /\ err.origin = "parse"
    /\ retryCount = 1
    /\ parseRetries = 0
    /\ calls = 2

-----------------------------------------------------------------------------
(* Properties of the recovery engine (specification Spec)                  *)

Done == pc \in {"parsed", "failed"}
Cleaned == pc \in {"cleaned", "parsed", "failed"}

\* C1: whatever the completion (empty, undefined, truncated, malformed), the
\* text cleanJsonString returns is accepted by JSON.parse or is exactly "{}".
C1_RecoveredTextParses ==
    Done => (data.ok \/ rawJson = EmptyObjectText)

\* C2: for a well-formed JSON text, the value parsed from the cleaned text is
\* deep-equal to the value parsed from the text itself.
C2_WellFormedUnchanged ==
    (Done /\ how = "whole") => (data.ok /\ data = JsonParse(doc))

IsObjectDoc == doc # <<>> /\ doc[1] = "{"

\* The members of the object text d that are complete within its first k
\* characters: those the text closes with a comma before the cut.
CompleteMembers(d, k) ==
    LET ends == {e \in 1..(k - 1) :
                    d[e + 1] = "," /\ JsonParse(Append(SubSeq(d, 1, e), "}")).ok}
    IN  IF ends = {} THEN <<>>
        ELSE JsonParse(Append(SubSeq(d, 1, CHOOSE e \in ends : \A f \in ends : f <= e),
                              "}")).val.v

HasMember(obj, m) == obj.t = "obj" /\ \E j \in 1..Len(obj.v) : obj.v[j] = m

\* C3: an object text cut off after at least one complete top-level member is
\* recovered to text that parses, and every member complete before the cut
\* keeps its value.
C3_TruncatedObjectRepaired ==
    (Done /\ how = "cut" /\ IsObjectDoc
          /\ CompleteMembers(doc, Len(text.chars)) # <<>>)
    => /\ data.ok
       /\ \A i \in 1..Len(CompleteMembers(doc, Len(text.chars))) :
              HasMember(data.val, CompleteMembers(doc, Len(text.chars))[i])

\* A quote of s at 1-based position i that no backslash escapes
UnescapedQuote(s, i) ==
    /\ s[i] = Quote
    /\ \E n \in 0..(i - 1) :
           /\ n % 2 = 0
           /\ \A j \in (i - n)..(i - 1) : s[j] = "\\"
           /\ (i - n = 1 \/ s[i - n - 1] # "\\")

OpenQuotes(s) == {i \in 1..Len(s) : UnescapedQuote(s, i)}

\* s ends inside a string literal that is the value of a member
EndsInsideStringValue(s) ==
    /\ Cardinality(OpenQuotes(s)) % 2 = 1
    /\ LET open == CHOOSE i \in OpenQuotes(s) : \A j \in OpenQuotes(s) : j <= i
       IN  open > 1 /\ s[open - 1] = ":"

\* The top-level member of the object text d that a cut after k characters
\* leaves incomplete
CutMember(d, k) == JsonParse(d).val.v[Len(CompleteMembers(d, k)) + 1]

\* C4: an object text cut off in the middle of a string value is recovered to
\* text that parses, and a recovered value of the cut member is a string.
C4_CutInsideStringRepaired ==
    (Done /\ how = "cut" /\ IsObjectDoc /\ EndsInsideStringValue(text.chars)
          /\ CutMember(doc, Len(text.chars)).val.t = "str")
    => /\ data.ok
       /\ data.val.t = "obj"
       /\ \A j \in 1..Len(data.val.v) :
              data.val.v[j].k = CutMember(doc, Len(text.chars)).k
              => data.val.v[j].val.t = "str"

NoStructure(t) ==
    \/ ~t.defined
    \/ \A i \in 1..Len(t.chars) : t.chars[i] \notin {"{", "["}

\* C5: a completion that is undefined or empty, or holds neither "{" nor "[",
\* is cleaned to exactly "{}".
C5_NoStructureGivesEmptyObject ==
    (Cleaned /\ NoStructure(text)) => rawJson = EmptyObjectText

C5_Witness ==
    /\ pc = "parsed"
    /\ text.defined
    /\ \E i \in 1..Len(text.chars) : text.chars[i] = "}"
    /\ NoStructure(text)
    /\ rawJson = EmptyObjectText

\* inString after the scan has read the character at 0-based index i of r
InStringAfter(r, i) == Cardinality({q \in OpenQuotes(r) : q <= i + 1}) % 2 = 1

\* The nesting depth of the opener open and closer close after index i of r,
\* counting the characters outside string literals only
DepthAfter(r, i, open, close) ==
    Cardinality({j \in 0..i : CharAt(r, j) = open /\ ~InStringAfter(r, j)})
    - Cardinality({j \in 0..i : CharAt(r, j) = close /\ ~InStringAfter(r, j)})

Balanced(r, i) == DepthAfter(r, i, "{", "}") = 0 /\ DepthAfter(r, i, "[", "]") = 0

\* The indices k at which, scanning r from its root character, both counters
\* are back at zero outside a string, none having gone negative before
StructuralEnds(r) ==
    {k \in 1..(Len(r) - 1) :
        /\ Balanced(r, k)
        /\ \A j \in 0..(k - 1) :
               /\ ~Balanced(r, j)
               /\ DepthAfter(r, j, "{", "}") >= 0
               /\ DepthAfter(r, j, "[", "]") >= 0}

\* The text the scan starts from: the stripped completion from its root on
RootText(t) ==
    LET stripped == Trim(StripFenceClose(StripFenceOpen(Trim(t.chars))))
    IN  Substring(stripped, RootStart(stripped), Len(stripped))

C7_FencedTextRecovered ==
    (Done /\ how = "fenced") => (data.ok /\ data = JsonParse(doc))

\* The fence-stripped text of the completion t
Stripped(t) == Trim(StripFenceClose(StripFenceOpen(Trim(t.chars))))

\* The 0-based indices of the braces and brackets that open, in s
Openers(s) == {i \in 0..(Len(s) - 1) : CharAt(s, i) \in {"{", "["}}

ScanOf(t) == ScanLoop(ScanInit(RootText(t)), 0)

\* The completion t is repaired by the truncation branch from a recorded
\* safe point
RepairedFromSafePoint(t) ==
    /\ t.defined
    /\ ~NoStructure(t)
    /\ ~ScanOf(t).finished
    /\ ScanOf(t).braceCount > 0 \/ ScanOf(t).bracketCount > 0 \/ ScanOf(t).inString
    /\ ScanOf(t).lastSafePoint # -1

\* The stack of unclosed openers after s, read outside string literals from
\* 0-based index i on with the stack so far; <<"bad">> once a closer does not
\* match the opener on top
RECURSIVE OpenStack(_, _, _)
OpenStack(s, i, stack) ==
    IF i >= Len(s) THEN stack
    ELSE IF InStringAfter(s, i) \/ CharAt(s, i) \notin {"{", "}", "[", "]"}
    THEN OpenStack(s, i + 1, stack)
    ELSE IF CharAt(s, i) \in {"{", "["} THEN OpenStack(s, i + 1, Append(stack, CharAt(s, i)))
    ELSE IF stack # <<>> /\ stack[Len(stack)] = (IF CharAt(s, i) = "}" THEN "{" ELSE "[")
    THEN OpenStack(s, i + 1, SubSeq(stack, 1, Len(stack) - 1))
    ELSE <<"bad">>

\* Every closer of s closes the opener opened last, and none stays open
WellNested(s) == OpenStack(s, 0, <<>>) = <<>>

\* No brace or bracket of s is inside a string literal
StructureOutsideStrings(s) ==
    \A i \in 0..(Len(s) - 1) : CharAt(s, i) \in {"{", "}", "[", "]"} => ~InStringAfter(s, i)

\* C18: the closers the truncation repair appends close the unclosed openers
\* in the reverse of the order they were opened in, so the repaired text is
\* validly nested, whatever the nesting ('[{"a":1,' becomes '[{"a":1}]').
C18_ClosersInLifoOrder ==
    (Cleaned /\ RepairedFromSafePoint(text) /\ StructureOutsideStrings(RootText(text)))
        => WellNested(rawJson)

\* C19: after the truncation repair from a recorded safe point, the depth of
\* braces and the depth of brackets of the result, counted outside string
\* literals, are both zero, also when a string before the cut holds braces or
\* brackets.
C19_RepairBalancesExactly ==
    (Cleaned /\ RepairedFromSafePoint(text))
        => /\ DepthAfter(rawJson, Len(rawJson) - 1, "{", "}") = 0
           /\ DepthAfter(rawJson, Len(rawJson) - 1, "[", "]") = 0

\* The 0-based indices of r at which a counter of the scan goes negative
\* before the root structure has closed
StrayClosers(r) ==
    {k \in 1..(Len(r) - 1) :
        /\ DepthAfter(r, k, "{", "}") < 0 \/ DepthAfter(r, k, "[", "]") < 0
        /\ \A j \in 0..(k - 1) :
               /\ DepthAfter(r, j, "{", "}") >= 0
               /\ DepthAfter(r, j, "[", "]") >= 0
               /\ (j > 0 => ~Balanced(r, j))}

\* C20: when a counter goes negative at a stray closer before the root closes,
\* the result is what the text before the stray closer is cleaned to: the
\* stray closer and what follows it are no part of the result.
C20_StrayCloserCutsText ==
    (Cleaned /\ text.defined /\ ~NoStructure(text)) =>
        \A k \in StrayClosers(RootText(text)) :
            rawJson = cleanJsonString(Str(Substring(RootText(text), 0, k)))

\* The state of the scan of r after the iteration at 0-based index i
ScanAfter(r, i) == ScanLoop(ScanInit(Substring(r, 0, i + 1)), 0)

\* The last index up to i of a "}", "]" or "," of r outside string literals
\* at which no depth is negative, or -1
SafePointAfter(r, i) ==
    LET safe == {j \in 0..i :
                    /\ CharAt(r, j) \in {"}", "]", ","}
                    /\ ~InStringAfter(r, j)
                    /\ DepthAfter(r, j, "{", "}") >= 0
                    /\ DepthAfter(r, j, "[", "]") >= 0}
    IN  IF safe = {} THEN -1 ELSE CHOOSE j \in safe : \A k \in safe : k <= j

CommaBeforeCloser(s, i) ==
    /\ CharAt(s, i) = ","
    /\ i + 1 + SpaceRun(s, i + 1) < Len(s)
    /\ CharAt(s, i + 1 + SpaceRun(s, i + 1)) \in {"}", "]"}

\* C22: the cleaned text holds no line feed, no carriage return and no comma
\* that is followed, after optional white space, by "}" or "]".
C22_PostProcessed ==
    Cleaned =>
        /\ \A i \in 0..(Len(rawJson) - 1) : CharAt(rawJson, i) \notin {"\n", "\r"}
        /\ \A i \in 0..(Len(rawJson) - 1) : ~CommaBeforeCloser(rawJson, i)

-----------------------------------------------------------------------------
(* Properties of the lookups (specification SpecLookup)                    *)

\* The words of s: its maximal runs of characters that are not white space
RECURSIVE Words(_, _)
Words(s, word) ==
    IF s = <<>> THEN (IF word = <<>> THEN <<>> ELSE <<word>>)
    ELSE IF Head(s) \in WhiteSpace
    THEN (IF word = <<>> THEN <<>> ELSE <<word>>) \o Words(Tail(s), <<>>)
    ELSE Words(Tail(s), Append(word, Head(s)))

\* a and b differ only in letter case or in the amount of white space between
\* their words
SameLabel(a, b) ==
    /\ Words(ToUpperCase(a), <<>>) = Words(ToUpperCase(b), <<>>)
    /\ (a = <<>>) = (b = <<>>)
    /\ (a # <<>> /\ b # <<>>) =>
           /\ (Head(a) \in WhiteSpace) = (Head(b) \in WhiteSpace)
           /\ (a[Len(a)] \in WhiteSpace) = (b[Len(b)] \in WhiteSpace)

\* The row and the column of the table that a label of the form names
FormRow(d) ==
    CASE d = <<"3", "0", " ">> \o Seconds -> "30_seconds"
      [] d = <<"1", " ">> \o Minute -> "1_minute"
      [] d = <<"3", " ">> \o Minutes -> "3_minutes"
      [] d = <<"5", " ">> \o Minutes -> "5_minutes"
      [] d = <<"8", " ">> \o Minutes -> "8_minutes"
      [] d = <<"1", "0", " ">> \o Minutes -> "10_minutes"
FormColumn(n) ==
    CASE n = <<"C", "o", "n", "c", "i", "s", "e">> -> "concise"
      [] n = <<"S", "t", "a", "n", "d", "a", "r", "d">> -> "standard"
      [] n = <<"D", "e", "t", "a", "i", "l", "e", "d">> -> "detailed"

NamesTableEntry(d, n) ==
    \E fd \in FormDurations, fn \in FormDensities : SameLabel(d, fd) /\ SameLabel(n, fn)

\* C8: getRequiredKeyframeCount always returns a positive integer: the table
\* entry for a duration and density of the table, and the default 8 for every
\* other pair of labels.
C8_KeyframeCountTotal ==
    pc = "prompted" =>
        /\ keyframeTotal.kind = "number"
        /\ keyframeTotal.val > 0
        /\ (duration \in FormDurations /\ density \in FormDensities)
           => keyframeTotal.val = table[FormRow(duration)][FormColumn(density)]
        /\ ~NamesTableEntry(duration, density) => keyframeTotal.val = 8

C10_StyleResolutionTotal ==
    pc = "prompted" =>
        /\ stylePreset = IF visualStyle \in PresetNames
                         THEN VISUAL_STYLE_PRESETS(visualStyle)
                         ELSE VISUAL_STYLE_PRESETS("Studio Ghibli")
        /\ stylePreset.image_style # "undefined"
        /\ stylePreset.video_style # "undefined"
        /\ stylePreset.recommended_vst # "undefined"

-----------------------------------------------------------------------------
(* Properties of the user gate (specification SpecGate)                    *)

\* C27: a profile the App holds is the profile of the user who is signed in,
\* and at most one profile subscription is active.
C27_ProfileOfSignedInUser ==
    /\ app.userData.exists => (auth # "" /\ app.userData.uid = auth)
    /\ Cardinality(listeners) <= 1

\* C28: the production app is rendered only for a signed-in user whose held
\* profile is approved or whose email is the admin email, the admin page only
\* for the admin email, and a signed-in user who is neither approved nor the
\* admin is shown the approval modal once the loader is gone.
C28_AccessGate ==
    /\ Render \in {"MainProductionApp", "AdminPage", "ApprovalModal"} =>
           auth # "" /\ app.user = AuthUser(auth)
    /\ Render = "MainProductionApp" =>
           app.userData.status = "approved" \/ app.user.email = ADMIN_EMAIL
    /\ Render = "AdminPage" => app.user.email = ADMIN_EMAIL
    /\ (/\ app.user # NoUser
        /\ app.user.email # ADMIN_EMAIL
        /\ app.userData.status \in {"pending", "blocked", ""}) =>
           Render \in {"Loader", "ApprovalModal"}

\* An approved user who is not the admin is in the production app
C28_Witness ==
    /\ Render = "MainProductionApp"
    /\ app.user.email # ADMIN_EMAIL
    /\ app.userData.status = "approved"
    /\ app.userData.uid = app.user.uid

\* C29: the status of a document that exists changes only by
\* updateUserStatus, and a status updateUserStatus has written stays the
\* status of the document whatever ensureUserProfile calls run afterwards or
\* alongside.
C29_StatusNeverReset ==
    /\ [](\A u \in Uids : written[u] # "none" => users[u].status = written[u])
    /\ [][\A u \in Uids :
              (users[u].exists /\ users'[u].status # users[u].status)
                  => written'[u] = users'[u].status]_vars

-----------------------------------------------------------------------------
(* Properties of the main app and its key (specification SpecKey)          *)

\* C30: a model call classified as invalid credential dispatches
\* PRISMA_API_KEY_INVALID and leaves isKeyReady false and the key manager
\* open; from then on isKeyReady becomes true only by a PRISMA_KEY_UPDATE,
\* and no generation is submitted while it is false.
C30_KeyStaysInvalid ==
    /\ [][(pc = "caught" /\ err'.message = InvalidKeyMessage) =>
              /\ lastEvent' = "PRISMA_API_KEY_INVALID"
              /\ ~keyApp'.isKeyReady
              /\ keyApp'.isKeyManagerOpen]_vars
    /\ [][(lastEvent = "PRISMA_API_KEY_INVALID" /\ ~keyApp.isKeyReady
              /\ keyApp'.isKeyReady) => lastEvent' = "PRISMA_KEY_UPDATE"]_vars
    /\ [][(pc = "idle" /\ pc' = "generating") => keyApp.isKeyReady]_vars

====
